---- MODULE Spec2Model ----
(***************************************************************************)
(* A model of the Nightjar MCP server: the NightjarClient session          *)
(* (src/nightjar-client.js) and the tool-call handler that drives it       *)
(* (src/index.js).  Texts are TLA+ strings and are scanned character by    *)
(* character, the way the JavaScript string methods and regular            *)
(* expressions of the source scan them.  Indices are JavaScript's: 0-based,*)
(* -1 for "not found".                                                     *)
(***************************************************************************)
EXTENDS Integers, Naturals, Sequences, FiniteSets, TLC

(***************************************************************************)
(* JavaScript string primitives.  A value that is used more than once is   *)
(* handed to a helper operator as an argument, so that it is written once. *)
(***************************************************************************)
Quote == "\""

MinOf(a, b) == IF a <= b THEN a ELSE b

MaxOf(a, b) == IF a >= b THEN a ELSE b

clamp(n, len) == MaxOf(0, MinOf(n, len))

slice(s, a, b) == SubSeq(s, MinOf(a, b) + 1, MaxOf(a, b))

\* s.substring(a, b): both ends clamped to 0..length, swapped when a > b.
substring(s, a, b) == slice(s, clamp(a, Len(s)), clamp(b, Len(s)))

\* s.startsWith(pat, at)
matchAt(s, pat, at) ==
  /\ at >= 0
  /\ at + Len(pat) <= Len(s)
  /\ SubSeq(s, at + 1, at + Len(pat)) = pat

startsWith(s, pat) == matchAt(s, pat, 0)

\* The least element of a non-empty set of integers
least(S) == CHOOSE i \in S : \A j \in S : i <= j

greatest(S) == CHOOSE i \in S : \A j \in S : j <= i

leastOr(S, none) == IF S = {} THEN none ELSE least(S)

\* s.indexOf(pat, from)
indexOf(s, pat, from) ==
  leastOr({i \in from..(Len(s) - Len(pat)) : matchAt(s, pat, i)}, -1)

includes(s, pat) == indexOf(s, pat, 0) # -1

\* s.split(sep): the pieces between the occurrences of sep, in order.
RECURSIVE split(_, _)
splitAt(s, sep, i) ==
  IF i = -1 THEN <<s>>
  ELSE <<substring(s, 0, i)>> \o split(substring(s, i + Len(sep), Len(s)), sep)

split(s, sep) == splitAt(s, sep, indexOf(s, sep, 0))

\* parts[1] of a split, "" standing for the undefined of a missing piece
secondPiece(parts) == IF Len(parts) >= 2 THEN parts[2] ELSE ""

\* JavaScript truthiness of a string
truthy(s) == s # ""

\* The regular-expression class \w
WordChars == "ABCDEFGHIJKLMNOPQRSTUVWXYZabcdefghijklmnopqrstuvwxyz0123456789_"

isWordChar(c) == Len(c) = 1 /\ includes(WordChars, c)

after(q, from) == IF q > from THEN q ELSE -1

\* [^"]+" from position `from`: the index of the closing quote, -1 when the
\* run is empty or no quote follows.
quotedEnd(s, from) == after(indexOf(s, Quote, from), from)

digit(d) == SubSeq("0123456789", d + 1, d + 1)

\* Number.prototype.toString for a natural number
RECURSIVE toString(_)
toString(n) == IF n < 10 THEN digit(n) ELSE toString(n \div 10) \o digit(n % 10)

\* Array.prototype.indexOf / includes on a sequence
arrayIndexOf(arr, x) == leastOr({i \in 1..Len(arr) : arr[i] = x}, 0) - 1

arrayIncludes(arr, x) == \E i \in 1..Len(arr) : arr[i] = x

(***************************************************************************)
(* JavaScript objects used as insertion-ordered maps (dataElements,        *)
(* variables): a sequence of [key, value] entries; assigning an existing   *)
(* key keeps its place.                                                    *)
(***************************************************************************)
omKeys(m) == [i \in 1..Len(m) |-> m[i].key]

omHas(m, k) == arrayIncludes(omKeys(m), k)

omGet(m, k) == m[arrayIndexOf(omKeys(m), k) + 1].value

omPut(m, k, v) ==
  IF omHas(m, k)
  THEN [m EXCEPT ![arrayIndexOf(omKeys(m), k) + 1].value = v]
  ELSE Append(m, [key |-> k, value |-> v])

(***************************************************************************)
(* parseEmbed, container locator                                           *)
(***************************************************************************)
\* The validity check on the fetched launch file
isLaunchFile(launchFile) ==
  \/ includes(launchFile, "window._satellite")
  \/ includes(launchFile, "_satellite.container")

\* A locator that falls back to the whole file when the marker is missing
launchConfigOrFile(launchFile) ==
  IF includes(launchFile, "window._satellite.container=")
  THEN secondPiece(split(launchFile, "window._satellite.container="))
  ELSE launchFile

\* launchFile.split("window._satellite.container=")[1]; "" also stands for
\* the undefined of a missing second piece: both are falsy and both throw.
launchConfigOf(launchFile) ==
  secondPiece(split(launchFile, "window._satellite.container="))

(***************************************************************************)
(* parseEmbed, data elements                                               *)
(***************************************************************************)
nameUpTo(element, q) == IF q # -1 THEN substring(element, 1, q) ELSE ""

\* element.match(/^"([^"]+)"/): the quoted name a slice starts with, "" if none
dataElementName(element) ==
  IF startsWith(element, Quote) THEN nameUpTo(element, quotedEnd(element, 1)) ELSE ""

\* One turn of dataElementsArray.forEach
putDataElement(dataElements, element, name) ==
  IF truthy(element) /\ truthy(name)
  THEN omPut(dataElements, name, element)
  ELSE dataElements

RECURSIVE dataElementsFrom(_, _, _)
dataElementsFrom(dataElementsArray, k, dataElements) ==
  IF k > Len(dataElementsArray) THEN dataElements
  ELSE dataElementsFrom(dataElementsArray, k + 1,
         putDataElement(dataElements, dataElementsArray[k],
                        dataElementName(dataElementsArray[k])))

dataElementsOfSection(dataElementsSection) ==
  IF ~truthy(dataElementsSection) THEN <<>>
  ELSE dataElementsFrom(
         split(split(dataElementsSection, "},extensions:{")[1], "}},"), 1, <<>>)

parseDataElements(launchConfig) ==
  dataElementsOfSection(secondPiece(split(launchConfig, "dataElements:{")))

(***************************************************************************)
(* parseEmbed, rule records: anchor pattern and context window             *)
(***************************************************************************)
ContextBefore == 20

ContextAfter == 2000

NoMatch == [ok |-> FALSE]

\* /\{(?:id|"id"):"(RL[^"]+)",(?:name|"name"):"([^"]+)"/ tried at index i,
\* stage by stage: p is where :"RL must follow, q the quote closing the id,
\* r where the name begins, q2 the quote closing the name.
ruleMatched(s, i, p, q, r, q2) ==
  IF q2 = -1 THEN NoMatch
  ELSE [ok |-> TRUE, index |-> i, end |-> q2 + 1,
        id |-> substring(s, p + 2, q), name |-> substring(s, r, q2)]

ruleNameFrom(s, i, p, q, r) ==
  ruleMatched(s, i, p, q, r, IF r = -1 THEN -1 ELSE quotedEnd(s, r))

ruleNameKeyAt(s, i, p, q) ==
  ruleNameFrom(s, i, p, q,
    IF q = -1 THEN -1
    ELSE IF matchAt(s, "\",name:\"", q) THEN q + 8
    ELSE IF matchAt(s, "\",\"name\":\"", q) THEN q + 10 ELSE -1)

ruleIdFrom(s, i, p) ==
  ruleNameKeyAt(s, i, p,
    IF p # -1 /\ matchAt(s, ":\"RL", p) THEN quotedEnd(s, p + 4) ELSE -1)

rulePatternAt(s, i) ==
  ruleIdFrom(s, i,
    IF matchAt(s, "{id", i) THEN i + 3
    ELSE IF matchAt(s, "{\"id\"", i) THEN i + 5 ELSE -1)

\* The text kept around one match
\* A window that is the record itself: from the match to the next match of
\* the rule pattern, or to the end of the file
contextOfRecord(launchFile, matchIndex) ==
  substring(launchFile, matchIndex,
            least({i \in (matchIndex + 1)..(Len(launchFile) - 1) :
                     matchAt(launchFile, "{", i) /\ rulePatternAt(launchFile, i).ok}
                  \cup {Len(launchFile)}))

contextOf(launchFile, matchIndex) ==
  substring(launchFile, MaxOf(0, matchIndex - ContextBefore),
            MinOf(Len(launchFile), matchIndex + ContextAfter))

\* The rulePattern.exec loop: every match from lastIndex on, left to right,
\* each with its context window.
RECURSIVE rulesListFrom(_, _)
rulesListAfter(launchFile, match) ==
  <<[id |-> match.id, name |-> match.name,
     context |-> contextOf(launchFile, match.index)]>>
  \o rulesListFrom(launchFile, match.end)

\* A scan that stops after its first match
rulesListFirst(launchFile, hits) ==
  IF hits = {} THEN <<>>
  ELSE <<[id |-> rulePatternAt(launchFile, least(hits)).id,
          name |-> rulePatternAt(launchFile, least(hits)).name,
          context |-> contextOf(launchFile, least(hits))]>>

rulesListAt(launchFile, hits) ==
  IF hits = {} THEN <<>>
  ELSE rulesListAfter(launchFile, rulePatternAt(launchFile, least(hits)))

rulesListFrom(launchFile, lastIndex) ==
  rulesListAt(launchFile,
    {i \in lastIndex..(Len(launchFile) - 1) :
       matchAt(launchFile, "{", i) /\ rulePatternAt(launchFile, i).ok})

(***************************************************************************)
(* parseEmbed, fields of one rule, each taken from the rule's context      *)
(***************************************************************************)
hasLineTerminator(s) == includes(s, "\n") \/ includes(s, "\r")

\* The lazy .*? of the event pattern: the first path:"..." at or after pos
\* that closes with a non-empty value; -1 if none.
RECURSIVE pathKeyFrom(_, _)
pathKeyAt(ruleContext, j) ==
  IF j = -1 THEN -1
  ELSE IF quotedEnd(ruleContext, j + 6) # -1 THEN j
  ELSE pathKeyFrom(ruleContext, j + 1)

pathKeyFrom(ruleContext, pos) == pathKeyAt(ruleContext, indexOf(ruleContext, "path:\"", pos))

\* ruleContext.match(/events:\[.*?path:"([^"]+)"/): the captured path, "" when
\* the pattern matches nowhere.  e is where events:[ stands, j the path key.
RECURSIVE eventMatchFrom(_, _)
eventMatchPath(ruleContext, e, j) ==
  IF j # -1 /\ ~hasLineTerminator(substring(ruleContext, e + 8, j))
  THEN substring(ruleContext, j + 6, quotedEnd(ruleContext, j + 6))
  ELSE eventMatchFrom(ruleContext, e + 1)

eventMatchAt(ruleContext, e) ==
  IF e = -1 THEN "" ELSE eventMatchPath(ruleContext, e, pathKeyFrom(ruleContext, e + 8))

eventMatchFrom(ruleContext, from) ==
  eventMatchAt(ruleContext, indexOf(ruleContext, "events:[", from))

\* The file name with its extension
fileNameOf(pathParts) == pathParts[Len(pathParts)]

\* pathParts[pathParts.length - 1].split('.')[0]
fileStem(pathParts) == split(pathParts[Len(pathParts)], ".")[1]

eventTypeOfPath(path) == IF ~truthy(path) THEN "Unknown" ELSE fileStem(split(path, "/"))

eventTypeOf(ruleContext) == eventTypeOfPath(eventMatchFrom(ruleContext, 0))

conditionsOf(ruleContext) ==
  IF includes(ruleContext, "conditions:[") /\ ~includes(ruleContext, "conditions:[]")
  THEN "Has conditions" ELSE ""

actionTextAt(ruleContext, at) ==
  substring(ruleContext, at, indexOf(ruleContext, "]", at) + 1)

actionsOf(ruleContext) ==
  IF includes(ruleContext, "actions:[") /\ ~includes(ruleContext, "actions:[]")
  THEN actionTextAt(ruleContext, indexOf(ruleContext, "actions:[", 0))
  ELSE ""

trackerPropsFrom(ruleContext, tpStart) ==
  substring(ruleContext, tpStart, indexOf(ruleContext, "}", tpStart) + 1)

trackerPropertiesOf(ruleContext) ==
  IF includes(ruleContext, "trackerProperties:")
  THEN trackerPropsFrom(ruleContext,
         indexOf(ruleContext, "trackerProperties:", 0) + Len("trackerProperties:"))
  ELSE ""

\* ruleContext.match(/customCode\.js[^,]+source:"([^"]+)"/): the captured
\* source, "" when the pattern matches nowhere.  [^,]+ is greedy: of the
\* source:" keys reachable from customCode.js (at c) without crossing a comma,
\* the last one that closes with a non-empty value is taken.
RECURSIVE ccMatchFrom(_, _)
ccSourceAt(ruleContext, key) ==
  substring(ruleContext, key + 8, quotedEnd(ruleContext, key + 8))

ccMatchKeys(ruleContext, c, keys) ==
  IF keys # {} THEN ccSourceAt(ruleContext, greatest(keys))
  ELSE ccMatchFrom(ruleContext, c + 1)

ccKeys(ruleContext, runStart, runEnd) ==
  {j \in (runStart + 1)..runEnd :
     matchAt(ruleContext, "source:\"", j) /\ quotedEnd(ruleContext, j + 8) # -1}

ccRunEnd(ruleContext, comma) == IF comma = -1 THEN Len(ruleContext) ELSE comma

ccMatchRun(ruleContext, c, runStart) ==
  ccMatchKeys(ruleContext, c,
    ccKeys(ruleContext, runStart, ccRunEnd(ruleContext, indexOf(ruleContext, ",", runStart))))

ccMatchAt(ruleContext, c) ==
  IF c = -1 THEN "" ELSE ccMatchRun(ruleContext, c, c + Len("customCode.js"))

ccMatchFrom(ruleContext, from) ==
  ccMatchAt(ruleContext, indexOf(ruleContext, "customCode.js", from))

\* The marker stored for custom code that lives at a URL
urlMarker(url) == "URL: " \o url \o " (Use analyze_rule to fetch complete code)"

\* A reading that stores every source as it stands, URL or not
customCodeVerbatim(source) == source

customCodeOfSource(source) ==
  IF ~truthy(source) THEN ""
  ELSE IF startsWith(source, "http") THEN urlMarker(source)
  ELSE source

customCodeOf(ruleContext) ==
  IF includes(ruleContext, "customCode.js")
  THEN customCodeOfSource(ccMatchFrom(ruleContext, 0))
  ELSE ""

EmptyRules ==
  [names |-> <<>>, events |-> <<>>, conditions |-> <<>>, actions |-> <<>>,
   trackerProperties |-> <<>>, customCode |-> <<>>]

\* One turn of rulesList.forEach: one push onto each of the six arrays
processRule(rules, rule) ==
  [names |-> Append(rules.names, rule.name),
   events |-> Append(rules.events, eventTypeOf(rule.context)),
   conditions |-> Append(rules.conditions, conditionsOf(rule.context)),
   actions |-> Append(rules.actions, actionsOf(rule.context)),
   trackerProperties |-> Append(rules.trackerProperties, trackerPropertiesOf(rule.context)),
   customCode |-> Append(rules.customCode, customCodeOf(rule.context))]

RECURSIVE processRules(_, _, _)
processRules(rulesList, k, rules) ==
  IF k > Len(rulesList) THEN rules
  ELSE processRules(rulesList, k + 1, processRule(rules, rulesList[k]))

parseRules(launchFile) == processRules(rulesListFrom(launchFile, 0), 1, EmptyRules)

(***************************************************************************)
(* parseEmbed, variable usage index                                        *)
(***************************************************************************)
EVarRange == 251

PropRange == 76

EventRange == 1001

\* A word boundary after a token that ends in a digit: the end of the text or
\* a non-word character.
boundaryAt(text, end) == end = Len(text) \/ ~isWordChar(substring(text, end, end + 1))

\* new RegExp(`${type}${i}\\b`) found somewhere in text: the token, then a
\* word boundary.  Nothing is required before the token.
RECURSIVE regexFound(_, _, _)
regexFoundAt(text, token, p) ==
  IF p = -1 THEN FALSE
  ELSE IF boundaryAt(text, p + Len(token)) THEN TRUE
  ELSE regexFound(text, token, p + 1)

regexFound(text, token, from) == regexFoundAt(text, token, indexOf(text, token, from))

orEmpty(arr, index) == IF index <= Len(arr) /\ truthy(arr[index]) THEN arr[index] ELSE ""

\* A push that does not look whether the name is listed already
pushRuleNameUnchecked(listed, ruleName, matches) ==
  IF matches THEN Append(listed, ruleName) ELSE listed

\* One turn of rules.names.forEach inside extractVariables
pushRuleName(listed, ruleName, matches) ==
  IF matches /\ ~arrayIncludes(listed, ruleName) THEN Append(listed, ruleName) ELSE listed

\* rules.names.forEach inside extractVariables: push the name of every rule
\* whose text matches and whose name is not yet listed.
RECURSIVE referencingRules(_, _, _, _)
referencingRules(rules, variableName, index, listed) ==
  IF index > Len(rules.names) THEN listed
  ELSE referencingRules(rules, variableName, index + 1,
         pushRuleName(listed, rules.names[index],
           regexFound(orEmpty(rules.trackerProperties, index)
                      \o orEmpty(rules.customCode, index), variableName, 0)))

\* The indices i < range, ascending, whose token is found in text: the turns
\* of the for loop of extractVariables that do anything.
foundIndices(text, type, range) ==
  {i \in 0..(range - 1) : truthy(text) /\ regexFound(text, type \o toString(i), 0)}

\* if (!variables[variableName]) variables[variableName] = []
listedUnder(variables, variableName) ==
  IF omHas(variables, variableName) THEN omGet(variables, variableName) ELSE <<>>

\* An index that lists under a variable only the first rule referencing it
indexVariableFirstRule(variables, rules, variableName) ==
  omPut(variables, variableName,
        SubSeq(referencingRules(rules, variableName, 1, <<>>), 1, 1))

indexVariable(variables, rules, variableName) ==
  omPut(variables, variableName,
        referencingRules(rules, variableName, 1, listedUnder(variables, variableName)))

RECURSIVE extractVariablesFrom(_, _, _, _)
extractVariablesTurn(variables, rules, type, found, i) ==
  extractVariablesFrom(indexVariable(variables, rules, type \o toString(i)),
                       rules, type, found \ {i})

extractVariablesFrom(variables, rules, type, found) ==
  IF found = {} THEN variables
  ELSE extractVariablesTurn(variables, rules, type, found, least(found))

extractVariables(variables, rules, text, type, range) ==
  extractVariablesFrom(variables, rules, type, foundIndices(text, type, range))

\* The three families, in the order the code runs them, on one rule's text
extractFamilies(variables, rules, combinedText) ==
  extractVariables(
    extractVariables(
      extractVariables(variables, rules, combinedText, "eVar", EVarRange),
      rules, combinedText, "prop", PropRange),
    rules, combinedText, "event", EventRange)

\* rules.trackerProperties.forEach
RECURSIVE variablesFrom(_, _, _)
variablesFrom(rules, index, variables) ==
  IF index > Len(rules.trackerProperties) THEN variables
  ELSE variablesFrom(rules, index + 1,
         extractFamilies(variables, rules,
           rules.trackerProperties[index] \o orEmpty(rules.customCode, index)))

parseVariables(rules) == variablesFrom(rules, 1, <<>>)

(***************************************************************************)
(* parseEmbed, from the fetched launch file to the parsed data             *)
(***************************************************************************)
InvalidLaunchFile ==
  "The provided URL does not appear to be a valid Adobe Launch embed code"

ContainerNotFound ==
  "Failed to parse Launch configuration: Could not find container configuration"

parsedDataFrom(launchConfig, rules) ==
  [dataElements |-> parseDataElements(launchConfig),
   rules |-> rules,
   variables |-> parseVariables(rules)]

\* What parseEmbed makes of a fetched launch file: the parsed data, or the
\* message of the error it throws before any data is stored.
parsedDataOf(launchFile) ==
  IF ~isLaunchFile(launchFile)
  THEN [ok |-> FALSE, message |-> "Failed to parse embed code: " \o InvalidLaunchFile]
  ELSE IF ~truthy(launchConfigOf(launchFile))
  THEN [ok |-> FALSE, message |-> "Failed to parse embed code: " \o ContainerNotFound]
  ELSE [ok |-> TRUE,
        data |-> parsedDataFrom(launchConfigOf(launchFile), parseRules(launchFile))]

(***************************************************************************)
(* analyzeRule                                                             *)
(***************************************************************************)
RECURSIVE join(_, _)
join(arr, sep) ==
  IF Len(arr) = 0 THEN ""
  ELSE IF Len(arr) = 1 THEN arr[1]
  ELSE arr[1] \o sep \o join(Tail(arr), sep)

when(cond, phrase) == IF cond THEN <<phrase>> ELSE <<>>

joinedOr(summary, other) == IF Len(summary) > 0 THEN join(summary, ", ") ELSE other

summarizeAction(actionData) ==
  IF ~truthy(actionData) THEN "No action data"
  ELSE joinedOr(
         when(includes(actionData, "s.t("),
              "Fires Adobe Analytics page view tracking call (s.t())")
         \o when(includes(actionData, "s.tl("),
                 "Fires Adobe Analytics link tracking call (s.tl())")
         \o when(includes(actionData, "customCode"), "Executes custom JavaScript code")
         \o when(includes(actionData, "dataLayerPush"), "Pushes data to data layer")
         \o when(includes(actionData, "ruleCondition"), "Has conditional logic"),
         "Other action type")

summarizeCondition(conditionData) ==
  IF ~truthy(conditionData) \/ conditionData = "missing component"
  THEN "No conditions (rule always fires)"
  ELSE joinedOr(
         when(includes(conditionData, "pathname"), "Page path condition")
         \o when(includes(conditionData, "hostname"), "Hostname condition")
         \o when(includes(conditionData, "cookie"), "Cookie value condition")
         \o when(includes(conditionData, "querystring"), "Query string parameter condition")
         \o when(includes(conditionData, "dataElement"), "Data element value condition")
         \o when(includes(conditionData, "logicalCondition"), "Logical operator condition"),
         "Has conditions")

PreviewLength == 200

\* The templated analysis analyzeRule returns without the generative backend
ruleSummary(ruleName, ruleData) ==
  "Rule: " \o ruleName
  \o "\nEvent Trigger: " \o (IF truthy(ruleData.event) THEN ruleData.event ELSE "Unknown")
  \o "\nCondition: " \o summarizeCondition(ruleData.condition)
  \o "\nAction Summary: " \o summarizeAction(ruleData.action)
  \o "\nUses Tracker Properties: " \o (IF truthy(ruleData.trackerProperty) THEN "Yes" ELSE "No")
  \o "\nHas Custom Code: " \o (IF truthy(ruleData.customCode) THEN "Yes" ELSE "No")
  \o "\n\n"
  \o (IF truthy(ruleData.customCode)
      THEN "\nCustom Code Preview: \n" \o substring(ruleData.customCode, 0, PreviewLength)
           \o (IF Len(ruleData.customCode) > PreviewLength THEN "..." ELSE "")
      ELSE "")

NoModelParsed == "Please parse an embed code first using parseEmbed()"

ruleNotFound(ruleName) == "Rule '" \o ruleName \o "' not found in the parsed embed code"

\* The record analyzeRule reads off the six arrays at ruleIndex (0-based)
ruleDataAt(rules, ruleIndex) ==
  [name |-> rules.names[ruleIndex + 1],
   event |-> rules.events[ruleIndex + 1],
   condition |-> rules.conditions[ruleIndex + 1],
   action |-> rules.actions[ruleIndex + 1],
   trackerProperty |-> rules.trackerProperties[ruleIndex + 1],
   customCode |-> rules.customCode[ruleIndex + 1]]

WhiteSpace == {" ", "\t", "\n", "\r", "\f"}

\* customCode.match(/URL: (.*?)(?:\s|$)/)[1]: what follows the first "URL: "
\* (at u) up to the next white space or the end; "" when there is no match.
urlFrom(customCode, u) ==
  IF u = -1 THEN ""
  ELSE substring(customCode, u + 5,
         leastOr({w \in (u + 5)..(Len(customCode) - 1) :
                    substring(customCode, w, w + 1) \in WhiteSpace},
                 Len(customCode)))

customCodeUrl(customCode) == urlFrom(customCode, indexOf(customCode, "URL: ", 0))

\* A test that sends any non-empty custom code to the Fetcher
hasCustomCode(customCode) == truthy(customCode)

\* Whether analyzeRule goes to the Fetcher for this custom code
needsFetch(customCode) ==
  /\ truthy(customCode)
  /\ startsWith(customCode, "URL:")
  /\ truthy(customCodeUrl(customCode))

failureNote(message) == " (Failed to fetch: " \o message \o ")"

\* A resolution that drops the failure instead of noting it
fetchedOrUnchanged(customCode, response) ==
  IF response.ok THEN response.data ELSE customCode

\* What ruleData.customCode is once the Fetcher has answered
resolvedCustomCode(customCode, response) ==
  IF response.ok THEN response.data ELSE customCode \o failureNote(response.message)

\* An array slot that was never assigned (a hole left by writing past the end)
EmptyItem == "<empty item>"

RECURSIVE holes(_)
holes(n) == IF n <= 0 THEN <<>> ELSE <<EmptyItem>> \o holes(n - 1)

\* arr[index] = value, a JavaScript array growing when index is past its end
assignAt(arr, index, value) ==
  IF index < Len(arr) THEN [arr EXCEPT ![index + 1] = value]
  ELSE arr \o holes(index - Len(arr)) \o <<value>>

\* A write that puts the fetched text into every customCode slot
patchEveryCustomCode(data, ruleIndex, response) ==
  IF response.ok
  THEN [data EXCEPT !.rules.customCode = [i \in 1..Len(@) |-> response.data]]
  ELSE data

\* this.parsedEmbed.rules.customCode[ruleIndex] = response.data, done on the
\* model the session holds when the Fetcher answers; nothing on failure.
patchCustomCode(data, ruleIndex, response) ==
  IF response.ok
  THEN [data EXCEPT !.rules.customCode = assignAt(@, ruleIndex, response.data)]
  ELSE data

(***************************************************************************)
(* analyzeDataElement and analyzeVariable: what they read off the model     *)
(***************************************************************************)
\* elementData.match(/modulePath:"([^"]+)"/): the captured path, "" when the
\* pattern matches nowhere
RECURSIVE moduleMatchFrom(_, _)
moduleMatchAt(elementData, j) ==
  IF j = -1 THEN ""
  ELSE IF quotedEnd(elementData, j + 12) # -1
  THEN substring(elementData, j + 12, quotedEnd(elementData, j + 12))
  ELSE moduleMatchFrom(elementData, j + 1)

moduleMatchFrom(elementData, pos) ==
  moduleMatchAt(elementData, indexOf(elementData, "modulePath:\"", pos))

pop(arr) == arr[Len(arr)]

\* A reading that never looks at modulePath
moduleTypeIgnored(elementData) == "Unknown"

\* The type read off modulePath, before the type checks
moduleTypeOf(elementData) ==
  IF includes(elementData, "modulePath:") /\ truthy(moduleMatchFrom(elementData, 0))
  THEN pop(split(moduleMatchFrom(elementData, 0), "/"))
  ELSE "Unknown"

\* typeChecks, in the order Object.entries gives them
typeChecks ==
  <<[type |-> "constant", regex |-> "defaultValue"],
    [type |-> "localStorage", regex |-> "storageDuration"],
    [type |-> "customCode", regex |-> "customCode"],
    [type |-> "jsVariable", regex |-> "path:"],
    [type |-> "domElement", regex |-> "elementSelector"],
    [type |-> "cookieValue", regex |-> "cookieName"]>>

\* A reading of the type checks that lets the first matching test decide
RECURSIVE firstTypeCheck(_, _, _)
firstTypeCheck(elementData, elementType, k) ==
  IF k > Len(typeChecks) THEN elementType
  ELSE IF includes(elementData, typeChecks[k].regex) THEN typeChecks[k].type
  ELSE firstTypeCheck(elementData, elementType, k + 1)

\* Object.entries(typeChecks).forEach from its k-th turn on: every test that
\* matches assigns elementType
RECURSIVE typeChecked(_, _, _)
typeChecked(elementData, elementType, k) ==
  IF k > Len(typeChecks) THEN elementType
  ELSE typeChecked(elementData,
         IF includes(elementData, typeChecks[k].regex)
         THEN typeChecks[k].type ELSE elementType,
         k + 1)

elementTypeOf(elementData) == typeChecked(elementData, moduleTypeOf(elementData), 1)

RawLength == 200

\* The templated analysis analyzeDataElement returns without the backend
dataElementSummary(elementName, elementData) ==
  "Data Element: " \o elementName
  \o "\nType: " \o elementTypeOf(elementData)
  \o "\nRaw Definition: " \o substring(elementData, 0, RawLength)
  \o (IF Len(elementData) > RawLength THEN "..." ELSE "")

\* A lookup that admits only the elements that name their module
dataElementWithModule(dataElements, elementName) ==
  /\ omHas(dataElements, elementName)
  /\ includes(omGet(dataElements, elementName), "modulePath:")

\* this.parsedEmbed.dataElements[elementName] is there and truthy
dataElementListed(dataElements, elementName) ==
  /\ omHas(dataElements, elementName)
  /\ truthy(omGet(dataElements, elementName))

dataElementNotFound(elementName) ==
  "Data element '" \o elementName \o "' not found in the parsed embed code"

variableNotFound(variableName) ==
  "Variable '" \o variableName \o "' not found in the parsed embed code"

usageLocationOf(trackerProperty, customCode, variableName) ==
  joinedOr(
    when(truthy(trackerProperty) /\ includes(trackerProperty, variableName),
         "Tracker Properties")
    \o when(truthy(customCode) /\ includes(customCode, variableName), "Custom Code"),
    "Unknown")

\* One turn of usedInRules.map
usageDetail(rules, ruleName, ruleIndex, variableName) ==
  IF ruleIndex = -1 THEN "Rule: " \o ruleName \o " (details not available)"
  ELSE "Rule: " \o ruleName
       \o "\nUsage Location: "
       \o usageLocationOf(rules.trackerProperties[ruleIndex + 1],
                          rules.customCode[ruleIndex + 1], variableName)
       \o "\nEvent Trigger: "
       \o (IF truthy(rules.events[ruleIndex + 1])
           THEN rules.events[ruleIndex + 1] ELSE "Unknown")

usageDetailsOf(rules, usedInRules, variableName) ==
  [k \in 1..Len(usedInRules) |->
     usageDetail(rules, usedInRules[k],
                 arrayIndexOf(rules.names, usedInRules[k]), variableName)]

\* The templated analysis analyzeVariable returns without the backend
variableSummary(variableName, usedInRules, usageDetails) ==
  "Variable: " \o variableName
  \o "\nUsed in " \o toString(Len(usedInRules)) \o " rules:\n"
  \o join(usageDetails, "\n\n")

(***************************************************************************)
(* extractEmbedFromUrl: the two script patterns                             *)
(***************************************************************************)
quoteAt(html, i) == matchAt(html, Quote, i) \/ matchAt(html, "'", i)

\* [^"']+["'] from position `from`: the index of the quote that ends the run
valueEnd(html, from) == leastOr({i \in from..(Len(html) - 1) : quoteAt(html, i)}, -1)

\* .*?><\/script> after the quote at q: the tag is closed on the same line
closedAfter(html, q) ==
  \E c \in (q + 1)..(Len(html) - 1) :
    /\ matchAt(html, "></script>", c)
    /\ ~hasLineTerminator(substring(html, q + 1, c))

AdobeAssets == "https://assets.adobedtm.com/"

\* What the capture group of embedRegexes[k] admits (k counted from 0)
sourceAdmitted(value, k) ==
  IF k = 0 THEN startsWith(value, AdobeAssets) /\ Len(value) > Len(AdobeAssets)
  ELSE \E i \in 1..(Len(value) - 7) : matchAt(value, "launch", i)

\* The places of src= that let embedRegexes[k] match from the <script at a:
\* on the line of a, quoted, admitted, and closed
sourcesFrom(html, a, k) ==
  {p \in (a + 7)..(Len(html) - 1) :
     /\ matchAt(html, "src=", p)
     /\ quoteAt(html, p + 4)
     /\ ~hasLineTerminator(substring(html, a + 7, p))
     /\ valueEnd(html, p + 5) # -1
     /\ sourceAdmitted(substring(html, p + 5, valueEnd(html, p + 5)), k)
     /\ closedAfter(html, valueEnd(html, p + 5))}

scriptsMatching(html, k) ==
  {a \in 0..(Len(html) - 1) : matchAt(html, "<script", a) /\ sourcesFrom(html, a, k) # {}}

sourceAt(html, p) == substring(html, p + 5, valueEnd(html, p + 5))

\* html.match(embedRegexes[k])[1]: from the leftmost <script that matches,
\* with the greedy .* reaching for the last src= of its line; "" without a
\* match
embedMatch(html, k) ==
  IF scriptsMatching(html, k) = {} THEN ""
  ELSE sourceAt(html, greatest(sourcesFrom(html, least(scriptsMatching(html, k)), k)))

EmbedNotFound == "No Adobe Launch embed code found on this page"

\* A loop that tries the generic pattern before the adobedtm one
genericFirst(html) ==
  IF truthy(embedMatch(html, 1)) THEN [ok |-> TRUE, data |-> embedMatch(html, 1)]
  ELSE IF truthy(embedMatch(html, 0)) THEN [ok |-> TRUE, data |-> embedMatch(html, 0)]
  ELSE [ok |-> FALSE, message |-> EmbedNotFound]

\* for (const regex of embedRegexes): the first capture that is truthy
embedOf(html) ==
  IF truthy(embedMatch(html, 0)) THEN [ok |-> TRUE, data |-> embedMatch(html, 0)]
  ELSE IF truthy(embedMatch(html, 1)) THEN [ok |-> TRUE, data |-> embedMatch(html, 1)]
  ELSE [ok |-> FALSE, message |-> EmbedNotFound]

(***************************************************************************)
(* The texts the Fetcher can return                                        *)
(***************************************************************************)
\* A page that is no launch file at all
NotLaunch == "<html><body>Not Found</body></html>"

\* A launch library without the container assignment
NoContainer == "window._satellite=window._satellite||{};"

\* A launch file cut off right after the container assignment
CutContainer == "/*!launch*/window._satellite.container="

\* Two rules; the first keeps its custom code at a URL
BundleA ==
  "window._satellite.container={dataElements:{\"pageName\":{modulePath:\"core/javascriptVariable.js\",settings:{path:\"digitalData.page\"}},\"uid\":{storageDuration:\"session\",settings:{cookieName:\"uid\"}}},extensions:{},rules:[{id:\"RL1\",name:\"Click\",events:[],conditions:[{settings:{pathname:\"/shop\"}}],actions:[{modulePath:\"core/customCode.js\";settings:{source:\"https://cdn.example/RC1.js\"}}]},{id:\"RL2\",name:\"PageLoad\",events:[{modulePath:\"core/events/pageBottom.js\",settings:{path:\"core/src/lib/events/pageLoad.js\"}}],conditions:[],actions:[{settings:{trackerProperties:{eVar1:\"%pageName%\",prop5:\"x\"}}}]}]}"

\* Four rules, two of them named alike, both with custom code at a URL; the
\* last has its event path on a line of its own
BundleB ==
  "// _satellite.container build\nwindow._satellite.container={rules:[{\"id\":\"RLa\",\"name\":\"Track\",actions:[{x:\"customCode.js\" source:\"http://cdn.example/a.js\"}]},{id:\"RLb\",name:\"Track\",actions:[{x:\"customCode.js\" source:\"http://cdn.example/b.js\"}]},{id:\"RLc\",name:\"Inline\",actions:[{trackerProperties:{eVar10:\"a\"}},{x:\"customCode.js\" source:\"s.myprop5=s.eVar1;s.event3()\"}]},{id:\"RLd\",name:\"Scroll\",events:[{settings:{\npath:\"core/src/lib/events/scroll.js\"}}]}]}"

\* A container with data elements and no rule
BundleC ==
  "window._satellite.container={dataElements:{\"pageName\":{settings:{defaultValue:\"home\"}},\"visits\":{storageDuration:\"visitor\",settings:{defaultValue:\"0\"}},\"lang\":{modulePath:\"core/src/lib/dataElements/pageInfo.js\",settings:{attribute:\"lang\"}},\"raw\":{settings:{attribute:\"title\"}},\"theme\":{storageDuration:\"session\"}},extensions:{}}"

\* A container with one rule record
BundleOne ==
  "window._satellite.container={rules:[{id:\"RL1\",name:\"PageLoad\",events:[{settings:{path:\"core/src/lib/events/pageLoad.js\"}}],actions:[]}]}"

\* A container with one rule record: its events region is empty and its
\* conditions region holds a path key and the word pathname
BundleD ==
  "window._satellite.container={rules:[{id:\"RL1\",name:\"Submit\",events:[],conditions:[{modulePath:\"core/src/lib/conditions/path.js\",settings:{path:\"/checkout/step.html\",pathname:\"/checkout\"}}],actions:[]}]}"

Bundles == {NotLaunch, NoContainer, CutContainer, BundleA, BundleB, BundleC}

\* Remote custom code: ordinary code, a file that itself starts with a URL
\* label, and an empty file
CodeTexts == {"s.eVar7=\"x\";", "URL: http://cdn.example/next.js", ""}

\* Pages: with the adobedtm script, with a local launch script on the line
\* before the adobedtm script, with a launch script of another host, and
\* with no launch script
PageAdobe ==
  "<html><head><script src=\"https://assets.adobedtm.com/abc/launch-EN1.min.js\" async></script></head></html>"

PageBoth ==
  "<script src=\"/js/launch-local.js\"></script>\n<script src=\"https://assets.adobedtm.com/abc/EN2.min.js\" async></script>"

PageGeneric == "<script async src='https://cdn.example/launch-EN3.min.js'></script>"

PageNone == "<html><script src=\"/js/app.js\"></script></html>"

Pages == {PageAdobe, PageBoth, PageGeneric, PageNone}

PageUrl == "https://www.example.com/"

EmbedCode == "https://assets.adobedtm.com/abc/launch-EN1.min.js"

RuleNames == {"PageLoad", "Click", "Track", "Inline", "nonexistent"}

ElementNames == {"uid", "visits", "theme", "lang", "raw", "nonexistent"}

VariableNames == {"eVar1", "prop5", "nonexistent"}

NetworkError == "Request failed with status code 404"

\* What an axios.get resolves or rejects with
Failure == [ok |-> FALSE, message |-> NetworkError]

Success(text) == [ok |-> TRUE, data |-> text]

BundleResponses == {Failure} \cup {Success(b) : b \in Bundles}

\* What the chat-completion request can come to: it fails, or the first
\* choice carries a text, possibly empty
BackendError == "401 Incorrect API key provided"

BackendResponses ==
  {[ok |-> FALSE, message |-> BackendError],
   [ok |-> TRUE, data |-> "The rule sets eVar1 on page load."],
   [ok |-> TRUE, data |-> ""]}

CodeResponses == {Failure} \cup {Success(c) : c \in CodeTexts}

PageResponses == {Failure} \cup {Success(p) : p \in Pages}

\* extractEmbedFromUrl's search is a function of the fetched page alone
Embeds == [p \in Pages |-> embedOf(p)]

\* parseEmbed is a function of the fetched text alone; its value on each text
\* of the corpus, computed once.
Parsed == [b \in Bundles \cup {BundleOne, BundleD} |-> parsedDataOf(b)]

(***************************************************************************)
(* The session and the invocations in flight                               *)
(***************************************************************************)
\* How many invocations may be suspended at an await at the same time
MaxInFlight == 2

\* How many custom-code fetches per rule slot a run follows
MaxFetches == 2

VARIABLES
  parsedEmbed,  \* this.parsedEmbed: Null, or <<the parsed data>>
  calls,        \* per slot, the invocation suspended there, or Idle
  last,         \* what the step just taken returned or threw; NoCall while a call begins
  fetched,      \* per rule of the current model, the URLs requested for its custom code
  resolved,     \* per rule of the current model, whether a fetch overwrote its slot
  parses,       \* every text parsed so far with the names and keys it gave
  openAiApiKey  \* whether the server was started with an OpenAI API key

vars == <<parsedEmbed, calls, last, fetched, resolved, parses, openAiApiKey>>

Null == <<>>

Slots == 1..MaxInFlight

Idle ==
  [pc |-> "idle", entry |-> "", before |-> Null, ruleName |-> "", ruleIndex |-> -1,
   url |-> "", wasResolved |-> FALSE, stale |-> FALSE,
   useAI |-> FALSE, pending |-> Null]

\* op: the NightjarClient method that returned (ok) or threw (message), "none"
\* when the handler itself answered or threw, with
\* the session model it was called on (before) and what it fetched;
\* useAI, backendCalls, backendOk: what the method was asked about the
\* generative backend, how often it invoked it and what came of it;
\* replied, isError, text: the result of the tool-call handler, when the step
\* ends a tool invocation.
NoCall ==
  [op |-> "none", entry |-> "", ok |-> TRUE, message |-> "", before |-> Null,
   fetchOk |-> FALSE, launchFile |-> "", ruleName |-> "", ruleIndex |-> -1,
   fetches |-> 0, url |-> "", fetchedText |-> "", customCode |-> "",
   wasResolved |-> FALSE, stale |-> FALSE, reparse |-> FALSE,
   useAI |-> FALSE, backendCalls |-> 0, backendOk |-> FALSE,
   replied |-> FALSE, isError |-> FALSE, text |-> ""]

Init ==
  /\ parsedEmbed = Null
  /\ calls = [s \in Slots |-> Idle]
  /\ last = NoCall
  /\ fetched = <<>>
  /\ resolved = <<>>
  /\ parses = {}
  /\ openAiApiKey \in BOOLEAN

\* The tools that work on the model of the session
AnalysisTools == {"analyze_rule", "analyze_data_element", "analyze_variable"}

ModelTools == AnalysisTools \cup {"list_rules", "list_data_elements", "list_variables"}

\* The handler's catch: the failure as text, flagged
errorReply(done, message) ==
  [done EXCEPT !.replied = TRUE, !.isError = TRUE, !.text = "Error: " \o message]

textReply(done, text) == [done EXCEPT !.replied = TRUE, !.text = text]

NoEmbedParsed ==
  "No embed code has been parsed yet. Please call parse_embed_code first or provide embed_code."

parsedReply(parsedData) ==
  "Successfully parsed Adobe Launch implementation!\n\nFound "
  \o toString(Len(parsedData.dataElements)) \o " data elements\nFound "
  \o toString(Len(parsedData.rules.names)) \o " rules\nDetected variables: "
  \o join(omKeys(parsedData.variables), ", ")
  \o "\n\nYou can now use other tools like analyze_rule, analyze_data_element, or analyze_variable to explore the implementation."

parsedFromUrlReply(url, embedCode, parsedData) ==
  "Successfully parsed Adobe Launch implementation from " \o url
  \o "!\n\nFound embed code: " \o embedCode \o "\nFound "
  \o toString(Len(parsedData.dataElements)) \o " data elements\nFound "
  \o toString(Len(parsedData.rules.names)) \o " rules\nDetected variables: "
  \o join(omKeys(parsedData.variables), ", ")
  \o "\n\nYou can now use other tools like analyze_rule, analyze_data_element, or analyze_variable to explore the implementation."

FromUrlFailure == "Failed to extract/parse embed code from URL: "

(***************************************************************************)
(* parseEmbed as the session runs it: up to the await of the bundle, and   *)
(* from the Fetcher's answer to the return                                 *)
(***************************************************************************)
constantArray(n, v) == [i \in 1..n |-> v]

range(arr) == {arr[i] : i \in 1..Len(arr)}

\* An installation that fills the data elements into the object the session
\* already holds instead of a fresh one
RECURSIVE putAll(_, _, _)
putAll(m, entries, k) ==
  IF k > Len(entries) THEN m
  ELSE putAll(omPut(m, entries[k].key, entries[k].value), entries, k + 1)

modelSharingDataElements(before, parsedData) ==
  IF before = Null THEN <<parsedData>>
  ELSE <<[parsedData EXCEPT !.dataElements = putAll(before[1].dataElements, @, 1)]>>

\* An installation that keeps the custom code the session already resolved
\* when the new model has as many rules
modelKeepingCustomCode(before, parsedData) ==
  IF before # Null /\ Len(before[1].rules.customCode) = Len(parsedData.rules.customCode)
  THEN <<[parsedData EXCEPT !.rules.customCode = before[1].rules.customCode]>>
  ELSE <<parsedData>>

\* this.parsedEmbed = parsedData
installedModel(before, parsedData) == <<parsedData>>

parseEmbedCall(s, entry, ruleName, useAI) ==
  /\ calls' = [calls EXCEPT ![s] =
                 [Idle EXCEPT !.pc = "fetchBundle", !.entry = entry,
                              !.before = parsedEmbed, !.ruleName = ruleName,
                              !.useAI = useAI]]
  /\ last' = NoCall
  /\ UNCHANGED <<openAiApiKey, parsedEmbed, fetched, resolved, parses>>

\* nightjar.parseEmbed(embedCode), called directly
ClientParseEmbed(s) ==
  /\ calls[s] = Idle
  /\ parseEmbedCall(s, "parseEmbed", "", FALSE)

\* A tool invocation the handler ends before any method is called
toolThrows(entry, name, message) ==
  /\ last' = errorReply([NoCall EXCEPT !.entry = entry, !.ruleName = name,
                                       !.before = parsedEmbed,
                                       !.ok = FALSE, !.message = message], message)
  /\ UNCHANGED <<openAiApiKey, parsedEmbed, calls, fetched, resolved, parses>>

MissingParameter(parameter) == "Missing required parameter: " \o parameter

\* case "parse_embed_code"
ToolParseEmbedCode(s, embed_code) ==
  /\ calls[s] = Idle
  /\ IF ~truthy(embed_code)
     THEN toolThrows("parse_embed_code", "", MissingParameter("embed_code"))
     ELSE parseEmbedCall(s, "parse_embed_code", "", FALSE)

\* What parseEmbed returns or throws once the Fetcher has answered
parseEmbedResult(response) ==
  IF response.ok THEN Parsed[response.data]
  ELSE [ok |-> FALSE, message |-> "Failed to parse embed code: " \o response.message]

parseEmbedDone(c, response, result) ==
  [NoCall EXCEPT !.op = "parseEmbed", !.entry = c.entry,
                 !.ok = result.ok,
                 !.message = IF result.ok THEN "" ELSE result.message,
                 !.before = c.before, !.fetchOk = response.ok,
                 !.launchFile = IF response.ok THEN response.data ELSE "",
                 !.wasResolved = \E i \in 1..Len(resolved) : resolved[i],
                 !.reparse = response.ok /\ \E p \in parses : p.text = response.data]

\* parseEmbed returns: the model is installed, and the caller goes on
parseEmbedReturns(s, c, response, parsedData, done) ==
  /\ parsedEmbed' = installedModel(parsedEmbed, parsedData)
  /\ fetched' = constantArray(Len(parsedEmbed'[1].rules.names), <<>>)
  /\ resolved' = constantArray(Len(parsedEmbed'[1].rules.names), FALSE)
  /\ parses' = parses \cup
       {[text |-> response.data,
         names |-> parsedEmbed'[1].rules.names,
         keys |-> range(omKeys(parsedEmbed'[1].dataElements))]}
  /\ calls' = [t \in Slots |->
       IF t = s
       THEN IF c.entry \in ModelTools
            THEN [c EXCEPT !.pc = "parsed"] ELSE Idle
       ELSE IF calls[t].pc = "fetchCode"
            THEN [calls[t] EXCEPT !.stale = TRUE] ELSE calls[t]]
  /\ last' = IF c.entry = "parse_embed_code"
             THEN textReply(done, parsedReply(parsedData))
             ELSE IF c.entry = "parse_embed_from_url"
             THEN textReply(done, parsedFromUrlReply(PageUrl, c.url, parsedData))
             ELSE done
  /\ UNCHANGED openAiApiKey

\* A failure that also drops the model the session holds
parseEmbedThrowsClearing(s, c, message, done) ==
  /\ parsedEmbed' = Null
  /\ fetched' = <<>>
  /\ resolved' = <<>>
  /\ UNCHANGED <<openAiApiKey, parses>>
  /\ calls' = [calls EXCEPT ![s] = Idle]
  /\ last' = errorReply(done, message)

\* parseEmbed throws: nothing is stored, and the handler renders the failure
parseEmbedThrows(s, c, message, done) ==
  /\ UNCHANGED <<openAiApiKey, parsedEmbed, fetched, resolved, parses>>
  /\ calls' = [calls EXCEPT ![s] = Idle]
  /\ last' = IF c.entry = "parse_embed_code"
             THEN errorReply(done, "Failed to parse embed code: " \o message)
             ELSE IF c.entry = "parse_embed_from_url"
             THEN errorReply(done, FromUrlFailure \o message)
             ELSE IF c.entry \in ModelTools
             THEN errorReply(done, message) ELSE done

parseEmbedEnds(s, c, response, result) ==
  IF result.ok
  THEN parseEmbedReturns(s, c, response, result.data, parseEmbedDone(c, response, result))
  ELSE parseEmbedThrows(s, c, result.message, parseEmbedDone(c, response, result))

\* The Fetcher answers the bundle request: parseEmbed runs to its end
BundleFetched(s, response) ==
  /\ calls[s].pc = "fetchBundle"
  /\ parseEmbedEnds(s, calls[s], response, parseEmbedResult(response))

(***************************************************************************)
(* analyzeRule as the session runs it: up to the await of the custom code  *)
(* (or to the return, when nothing is fetched), and from the Fetcher's     *)
(* answer to the return                                                    *)
(***************************************************************************)
\* A lookup that settles for the first rule when the name is not there
ruleIndexOrFirst(rules, ruleName) ==
  IF Len(rules.names) = 0 THEN -1 ELSE MaxOf(0, arrayIndexOf(rules.names, ruleName))

\* A lookup that takes the last rule carrying the name
ruleIndexOfLast(rules, ruleName) ==
  greatest({i \in 1..Len(rules.names) : rules.names[i] = ruleName} \cup {0}) - 1

\* this.parsedEmbed.rules.names.indexOf(ruleName)
ruleIndexOf(rules, ruleName) == arrayIndexOf(rules.names, ruleName)

setAt(arr, index, v) == IF index < Len(arr) THEN [arr EXCEPT ![index + 1] = v] ELSE arr

\* What the analysis tools put before the message of a failed method
toolFailure(entry) ==
  CASE entry = "analyze_rule" -> "Failed to analyze rule: "
    [] entry = "analyze_data_element" -> "Failed to analyze data element: "
    [] entry = "analyze_variable" -> "Failed to analyze variable: "

\* An analysis method returns or throws; its tool renders either
analysisDone(s, entry, done) ==
  /\ calls' = [calls EXCEPT ![s] = Idle]
  /\ last' = IF entry \notin AnalysisTools THEN done
             ELSE IF done.ok THEN textReply(done, done.message)
             ELSE errorReply(done, toolFailure(entry) \o done.message)

\* A condition that asks for the backend whether or not a key was configured
asksBackendWithoutKey(useAI) == useAI

\* useAI && this.openAiApiKey && this.openai
asksBackend(useAI) == useAI /\ openAiApiKey

\* args.use_ai === true && openAiApiKey
toolUseAI(use_ai) == use_ai /\ openAiApiKey

BackendKeyRequired == "OpenAI API key is required for AI analysis"

\* The method has its data: it returns the summary it built from them
\* (done.message), or hands them to analyzeWithAI and awaits the backend
analysisReady(s, entry, useAI, done) ==
  IF ~asksBackend(useAI) THEN analysisDone(s, entry, done)
  ELSE IF ~openAiApiKey
  THEN analysisDone(s, entry, [done EXCEPT !.ok = FALSE, !.message = BackendKeyRequired])
  ELSE /\ calls' = [calls EXCEPT ![s] =
                      [Idle EXCEPT !.pc = "backend", !.entry = entry,
                                   !.before = done.before, !.ruleName = done.ruleName,
                                   !.useAI = useAI, !.pending = <<done>>]]
       /\ last' = NoCall

\* analyzeWithAI's return: the completion, or its failure as a sentence
backendText(response) ==
  IF response.ok
  THEN IF response.data = "" THEN "No analysis could be generated." ELSE response.data
  ELSE "AI Analysis Error: " \o response.message
       \o ". Please check your OpenAI API key and try again."

\* The backend answers: the method returns what analyzeWithAI returns
BackendAnswered(s, response) ==
  /\ calls[s].pc = "backend"
  /\ analysisDone(s, calls[s].entry,
       [calls[s].pending[1] EXCEPT !.message = backendText(response),
                                  !.backendCalls = 1, !.backendOk = response.ok])
  /\ UNCHANGED <<openAiApiKey, parsedEmbed, fetched, resolved, parses>>

\* analyzeRule returns or throws; case "analyze_rule" renders either
analyzeRuleDone(s, entry, done) == analysisDone(s, entry, done)

analyzeRuleBegun(entry, ruleName, useAI) ==
  [NoCall EXCEPT !.op = "analyzeRule", !.entry = entry,
                 !.before = parsedEmbed, !.ruleName = ruleName, !.useAI = useAI]

\* The rule was found: go to the Fetcher for its custom code, or return
analyzeRuleFound(s, entry, ruleName, useAI, ruleIndex, ruleData) ==
  IF needsFetch(ruleData.customCode)
  THEN /\ Len(fetched[ruleIndex + 1]) < MaxFetches
       /\ fetched' = [fetched EXCEPT
                        ![ruleIndex + 1] = Append(@, customCodeUrl(ruleData.customCode))]
       /\ calls' = [calls EXCEPT ![s] =
                      [Idle EXCEPT !.pc = "fetchCode", !.entry = entry,
                                   !.before = parsedEmbed, !.ruleName = ruleName,
                                   !.ruleIndex = ruleIndex, !.useAI = useAI,
                                   !.url = customCodeUrl(ruleData.customCode),
                                   !.wasResolved = resolved[ruleIndex + 1]]]
       /\ last' = NoCall
       /\ UNCHANGED <<openAiApiKey, parsedEmbed, resolved, parses>>
  ELSE /\ analysisReady(s, entry, useAI,
            [analyzeRuleBegun(entry, ruleName, useAI) EXCEPT
               !.message = ruleSummary(ruleName, ruleData),
               !.ruleIndex = ruleIndex,
               !.customCode = ruleData.customCode,
               !.wasResolved = resolved[ruleIndex + 1]])
       /\ UNCHANGED <<openAiApiKey, parsedEmbed, fetched, resolved, parses>>

analyzeRuleAt(s, entry, ruleName, useAI, ruleIndex) ==
  IF ruleIndex = -1
  THEN /\ analyzeRuleDone(s, entry,
            [analyzeRuleBegun(entry, ruleName, useAI) EXCEPT
               !.ok = FALSE, !.message = ruleNotFound(ruleName)])
       /\ UNCHANGED <<openAiApiKey, parsedEmbed, fetched, resolved, parses>>
  ELSE analyzeRuleFound(s, entry, ruleName, useAI, ruleIndex,
                        ruleDataAt(parsedEmbed[1].rules, ruleIndex))

analyzeRuleCall(s, entry, ruleName, useAI) ==
  IF parsedEmbed = Null
  THEN /\ analyzeRuleDone(s, entry,
            [analyzeRuleBegun(entry, ruleName, useAI) EXCEPT
               !.ok = FALSE, !.message = NoModelParsed])
       /\ UNCHANGED <<openAiApiKey, parsedEmbed, fetched, resolved, parses>>
  ELSE analyzeRuleAt(s, entry, ruleName, useAI,
                     ruleIndexOf(parsedEmbed[1].rules, ruleName))

\* nightjar.analyzeRule(ruleName, useAI), called directly
ClientAnalyzeRule(s, ruleName, useAI) ==
  /\ calls[s] = Idle
  /\ analyzeRuleCall(s, "analyzeRule", ruleName, useAI)

\* case "analyze_rule", with or without embed_code
ToolAnalyzeRule(s, ruleName, withEmbedCode, use_ai) ==
  /\ calls[s] = Idle
  /\ IF ~truthy(ruleName)
     THEN toolThrows("analyze_rule", ruleName, MissingParameter("rule_name"))
     ELSE IF withEmbedCode
     THEN parseEmbedCall(s, "analyze_rule", ruleName, toolUseAI(use_ai))
     ELSE IF parsedEmbed = Null
     THEN toolThrows("analyze_rule", ruleName, NoEmbedParsed)
     ELSE analyzeRuleCall(s, "analyze_rule", ruleName, toolUseAI(use_ai))

\* case "analyze_rule" after its await of parseEmbed
ContinueAnalyzeRule(s) ==
  /\ calls[s].pc = "parsed"
  /\ calls[s].entry = "analyze_rule"
  /\ analyzeRuleCall(s, "analyze_rule", calls[s].ruleName, calls[s].useAI)

listRulesReply(names) ==
  IF Len(names) = 0 THEN "No rules found in the parsed embed code."
  ELSE "Found " \o toString(Len(names)) \o " rules:\n\n" \o join(names, "\n")

listRulesDone(s) ==
  /\ calls' = [calls EXCEPT ![s] = Idle]
  /\ last' = textReply([NoCall EXCEPT !.entry = "list_rules", !.before = parsedEmbed],
                       listRulesReply(parsedEmbed[1].rules.names))
  /\ UNCHANGED <<openAiApiKey, parsedEmbed, fetched, resolved, parses>>

\* case "list_rules", with or without embed_code
ToolListRules(s, withEmbedCode) ==
  /\ calls[s] = Idle
  /\ IF withEmbedCode THEN parseEmbedCall(s, "list_rules", "", FALSE)
     ELSE IF parsedEmbed = Null
     THEN toolThrows("list_rules", "", NoEmbedParsed)
     ELSE listRulesDone(s)

\* case "list_rules" after its await of parseEmbed
ContinueListRules(s) ==
  /\ calls[s].pc = "parsed"
  /\ calls[s].entry = "list_rules"
  /\ listRulesDone(s)

(***************************************************************************)
(* analyzeDataElement, analyzeVariable and the other tools of the handler   *)
(***************************************************************************)
methodBegun(op, entry, name, useAI) ==
  [NoCall EXCEPT !.op = op, !.entry = entry, !.before = parsedEmbed,
                 !.ruleName = name, !.useAI = useAI]

analyzeDataElementCall(s, entry, elementName, useAI) ==
  /\ IF parsedEmbed = Null
     THEN analysisDone(s, entry,
            [methodBegun("analyzeDataElement", entry, elementName, useAI) EXCEPT
               !.ok = FALSE, !.message = NoModelParsed])
     ELSE IF ~dataElementListed(parsedEmbed[1].dataElements, elementName)
     THEN analysisDone(s, entry,
            [methodBegun("analyzeDataElement", entry, elementName, useAI) EXCEPT
               !.ok = FALSE, !.message = dataElementNotFound(elementName)])
     ELSE analysisReady(s, entry, useAI,
            [methodBegun("analyzeDataElement", entry, elementName, useAI) EXCEPT
               !.message = dataElementSummary(elementName,
                             omGet(parsedEmbed[1].dataElements, elementName))])
  /\ UNCHANGED <<openAiApiKey, parsedEmbed, fetched, resolved, parses>>

analyzeVariableCall(s, entry, variableName, useAI) ==
  /\ IF parsedEmbed = Null
     THEN analysisDone(s, entry,
            [methodBegun("analyzeVariable", entry, variableName, useAI) EXCEPT
               !.ok = FALSE, !.message = NoModelParsed])
     ELSE IF ~omHas(parsedEmbed[1].variables, variableName)
     THEN analysisDone(s, entry,
            [methodBegun("analyzeVariable", entry, variableName, useAI) EXCEPT
               !.ok = FALSE, !.message = variableNotFound(variableName)])
     ELSE analysisReady(s, entry, useAI,
            [methodBegun("analyzeVariable", entry, variableName, useAI) EXCEPT
               !.message = variableSummary(variableName,
                  omGet(parsedEmbed[1].variables, variableName),
                  usageDetailsOf(parsedEmbed[1].rules,
                                 omGet(parsedEmbed[1].variables, variableName),
                                 variableName))])
  /\ UNCHANGED <<openAiApiKey, parsedEmbed, fetched, resolved, parses>>

\* nightjar.analyzeDataElement(elementName, useAI), called directly
ClientAnalyzeDataElement(s, elementName, useAI) ==
  /\ calls[s] = Idle
  /\ analyzeDataElementCall(s, "analyzeDataElement", elementName, useAI)

\* nightjar.analyzeVariable(variableName, useAI), called directly
ClientAnalyzeVariable(s, variableName, useAI) ==
  /\ calls[s] = Idle
  /\ analyzeVariableCall(s, "analyzeVariable", variableName, useAI)

\* case "analyze_data_element", with or without embed_code
ToolAnalyzeDataElement(s, elementName, withEmbedCode, use_ai) ==
  /\ calls[s] = Idle
  /\ IF ~truthy(elementName)
     THEN toolThrows("analyze_data_element", elementName, MissingParameter("element_name"))
     ELSE IF withEmbedCode
     THEN parseEmbedCall(s, "analyze_data_element", elementName, toolUseAI(use_ai))
     ELSE IF parsedEmbed = Null
     THEN toolThrows("analyze_data_element", elementName, NoEmbedParsed)
     ELSE analyzeDataElementCall(s, "analyze_data_element", elementName, toolUseAI(use_ai))

\* case "analyze_variable", with or without embed_code
ToolAnalyzeVariable(s, variableName, withEmbedCode, use_ai) ==
  /\ calls[s] = Idle
  /\ IF ~truthy(variableName)
     THEN toolThrows("analyze_variable", variableName, MissingParameter("variable_name"))
     ELSE IF withEmbedCode
     THEN parseEmbedCall(s, "analyze_variable", variableName, toolUseAI(use_ai))
     ELSE IF parsedEmbed = Null
     THEN toolThrows("analyze_variable", variableName, NoEmbedParsed)
     ELSE analyzeVariableCall(s, "analyze_variable", variableName, toolUseAI(use_ai))

listDataElementsReply(keys) ==
  IF Len(keys) = 0 THEN "No data elements found in the parsed embed code."
  ELSE "Found " \o toString(Len(keys)) \o " data elements:\n\n" \o join(keys, "\n")

variablesGroup(label, group) ==
  label \o " (" \o toString(Len(group)) \o "): " \o join(group, ", ")

isOther(v) == ~startsWith(v, "eVar") /\ ~startsWith(v, "prop") /\ ~startsWith(v, "event")

listVariablesReply(keys) ==
  IF Len(keys) = 0 THEN "No variables found in the parsed embed code."
  ELSE "Found " \o toString(Len(keys)) \o " variables in the parsed embed code:\n\n"
       \o variablesGroup("eVars", SelectSeq(keys, LAMBDA v : startsWith(v, "eVar")))
       \o "\n"
       \o variablesGroup("Props", SelectSeq(keys, LAMBDA v : startsWith(v, "prop")))
       \o "\n"
       \o variablesGroup("Events", SelectSeq(keys, LAMBDA v : startsWith(v, "event")))
       \o (IF Len(SelectSeq(keys, isOther)) > 0
           THEN "\n" \o variablesGroup("Others", SelectSeq(keys, isOther)) ELSE "")

\* What a list tool answers on the model the session holds
listReply(entry) ==
  CASE entry = "list_rules" -> listRulesReply(parsedEmbed[1].rules.names)
    [] entry = "list_data_elements" ->
         listDataElementsReply(omKeys(parsedEmbed[1].dataElements))
    [] entry = "list_variables" -> listVariablesReply(omKeys(parsedEmbed[1].variables))

listDone(s, entry) ==
  /\ calls' = [calls EXCEPT ![s] = Idle]
  /\ last' = textReply([NoCall EXCEPT !.entry = entry, !.before = parsedEmbed],
                       listReply(entry))
  /\ UNCHANGED <<openAiApiKey, parsedEmbed, fetched, resolved, parses>>

\* case "list_data_elements" and case "list_variables", with or without
\* embed_code
ToolList(s, entry, withEmbedCode) ==
  /\ calls[s] = Idle
  /\ IF withEmbedCode THEN parseEmbedCall(s, entry, "", FALSE)
     ELSE IF parsedEmbed = Null THEN toolThrows(entry, "", NoEmbedParsed)
     ELSE listDone(s, entry)

\* The tools other than analyze_rule and list_rules after their await of
\* parseEmbed
ContinueTool(s) ==
  /\ calls[s].pc = "parsed"
  /\ CASE calls[s].entry = "analyze_data_element" ->
            analyzeDataElementCall(s, calls[s].entry, calls[s].ruleName, calls[s].useAI)
       [] calls[s].entry = "analyze_variable" ->
            analyzeVariableCall(s, calls[s].entry, calls[s].ruleName, calls[s].useAI)
       [] calls[s].entry \in {"list_data_elements", "list_variables"} ->
            listDone(s, calls[s].entry)
       [] OTHER -> FALSE

extractEmbedCall(s, entry) ==
  /\ calls' = [calls EXCEPT ![s] =
                 [Idle EXCEPT !.pc = "fetchPage", !.entry = entry, !.before = parsedEmbed]]
  /\ last' = NoCall
  /\ UNCHANGED <<openAiApiKey, parsedEmbed, fetched, resolved, parses>>

\* nightjar.extractEmbedFromUrl(url), called directly
ClientExtractEmbedFromUrl(s) ==
  /\ calls[s] = Idle
  /\ extractEmbedCall(s, "extractEmbedFromUrl")

\* case "parse_embed_from_url"
ToolParseEmbedFromUrl(s, url) ==
  /\ calls[s] = Idle
  /\ IF ~truthy(url) THEN toolThrows("parse_embed_from_url", "", MissingParameter("url"))
     ELSE extractEmbedCall(s, "parse_embed_from_url")

\* What extractEmbedFromUrl returns or throws once the Fetcher has answered
extractEmbedResult(response) ==
  IF response.ok THEN Embeds[response.data]
  ELSE [ok |-> FALSE, message |-> response.message]

extractEmbedDone(c, response, result) ==
  [NoCall EXCEPT !.op = "extractEmbedFromUrl", !.entry = c.entry,
     !.ok = result.ok,
     !.message = IF result.ok THEN result.data
                 ELSE "Failed to extract embed code from URL: " \o result.message,
     !.before = c.before, !.fetchOk = response.ok, !.url = PageUrl,
     !.fetchedText = IF response.ok THEN response.data ELSE ""]

\* A tool that goes on to parseEmbed whatever the extraction came to, with
\* the page's own address when nothing was extracted
extractEmbedGoesOn(s, c, done) ==
  /\ calls' = [calls EXCEPT ![s] =
                 IF c.entry = "parse_embed_from_url"
                 THEN [Idle EXCEPT !.pc = "fetchBundle", !.entry = c.entry,
                                   !.before = parsedEmbed,
                                   !.url = IF done.ok THEN done.message ELSE PageUrl]
                 ELSE Idle]
  /\ last' = done
  /\ UNCHANGED <<openAiApiKey, parsedEmbed, fetched, resolved, parses>>

\* extractEmbedFromUrl ends; the tool goes on to parseEmbed with what it
\* returned, or renders what it threw
extractEmbedEnds(s, c, done) ==
  /\ calls' = [calls EXCEPT ![s] =
                 IF c.entry = "parse_embed_from_url" /\ done.ok
                 THEN [Idle EXCEPT !.pc = "fetchBundle", !.entry = c.entry,
                                   !.before = parsedEmbed, !.url = done.message]
                 ELSE Idle]
  /\ last' = IF c.entry = "parse_embed_from_url" /\ ~done.ok
             THEN errorReply(done, FromUrlFailure \o done.message) ELSE done
  /\ UNCHANGED <<openAiApiKey, parsedEmbed, fetched, resolved, parses>>

\* The Fetcher answers the page request: extractEmbedFromUrl runs to its end
PageFetched(s, response) ==
  /\ calls[s].pc = "fetchPage"
  /\ extractEmbedEnds(s, calls[s],
       extractEmbedDone(calls[s], response, extractEmbedResult(response)))

\* A request without an arguments object: the first read of args throws a
\* TypeError, which the handler's catch renders
readOfUndefined(entry) ==
  "Cannot read properties of undefined (reading '"
  \o (CASE entry = "analyze_rule" -> "rule_name"
        [] entry = "analyze_data_element" -> "element_name"
        [] entry = "analyze_variable" -> "variable_name"
        [] OTHER -> "embed_code")
  \o "')"

ToolWithoutArguments(s, entry) ==
  /\ calls[s] = Idle
  /\ toolThrows(entry, "", readOfUndefined(entry))

\* default: a name the handler has no case for
ToolUnknown(s, name) ==
  /\ calls[s] = Idle
  /\ toolThrows(name, "", "Unknown tool: " \o name)

codeFetchedDone(c, response, ruleData, customCode) ==
  [NoCall EXCEPT !.op = "analyzeRule", !.entry = c.entry, !.useAI = c.useAI,
     !.message = ruleSummary(c.ruleName, [ruleData EXCEPT !.customCode = customCode]),
     !.before = c.before, !.fetchOk = response.ok,
     !.ruleName = c.ruleName, !.ruleIndex = c.ruleIndex,
     !.fetches = 1, !.url = c.url,
     !.fetchedText = IF response.ok THEN response.data ELSE "",
     !.customCode = customCode,
     !.wasResolved = c.wasResolved, !.stale = c.stale]

\* ruleData is what analyzeRule read before its await
analyzeRuleResumes(s, c, response, ruleData) ==
  /\ parsedEmbed' = <<patchCustomCode(parsedEmbed[1], c.ruleIndex, response)>>
  /\ resolved' = IF response.ok THEN setAt(resolved, c.ruleIndex, TRUE) ELSE resolved
  /\ analysisReady(s, c.entry, c.useAI,
       codeFetchedDone(c, response, ruleData,
                       resolvedCustomCode(ruleData.customCode, response)))
  /\ UNCHANGED <<openAiApiKey, fetched, parses>>

\* The Fetcher answers the custom-code request: analyzeRule runs to its end
CodeFetched(s, response) ==
  /\ calls[s].pc = "fetchCode"
  /\ analyzeRuleResumes(s, calls[s], response,
                        ruleDataAt(calls[s].before[1].rules, calls[s].ruleIndex))

(***************************************************************************)
(* Specifications                                                          *)
(***************************************************************************)
\* Parses and rule analyses made one after the other, each awaited before
\* the next is made, over the whole corpus
Next ==
  \/ ClientParseEmbed(1)
  \/ ToolParseEmbedCode(1, EmbedCode)
  \/ \E response \in BundleResponses : BundleFetched(1, response)
  \/ \E ruleName \in RuleNames, useAI \in BOOLEAN :
       ClientAnalyzeRule(1, ruleName, useAI)
  \/ \E ruleName \in RuleNames \cup {""}, withEmbedCode \in BOOLEAN, use_ai \in BOOLEAN :
       ToolAnalyzeRule(1, ruleName, withEmbedCode, use_ai)
  \/ \E response \in BackendResponses : BackendAnswered(1, response)
  \/ ContinueAnalyzeRule(1)
  \/ \E response \in CodeResponses : CodeFetched(1, response)
  \/ \E withEmbedCode \in BOOLEAN : ToolListRules(1, withEmbedCode)
  \/ ContinueListRules(1)

Spec == Init /\ [][Next]_vars

\* Tool invocations that may begin while another is suspended at an await:
\* the handler of index.js is an async function and the server awaits none
\* of its invocations before dispatching the next request.
OverlapBundleResponses == {Failure, Success(BundleA), Success(BundleC)}

OverlapCodeResponses == {Failure, Success("s.eVar7=\"x\";")}

OverlapRuleNames == {"Click", "nonexistent"}

NextOverlap ==
  \E s \in Slots :
    \/ ToolParseEmbedCode(s, EmbedCode)
    \/ \E response \in OverlapBundleResponses : BundleFetched(s, response)
    \/ \E ruleName \in OverlapRuleNames, withEmbedCode \in BOOLEAN :
         ToolAnalyzeRule(s, ruleName, withEmbedCode, FALSE)
    \/ ContinueAnalyzeRule(s)
    \/ \E response \in OverlapCodeResponses : CodeFetched(s, response)

SpecOverlap == Init /\ [][NextOverlap]_vars

\* Every method of the client and every tool of the handler, called one
\* after the other, over the launch files and custom code of the overlap
\* specification
ToolRuleNames == {"Click", "PageLoad", "nonexistent"}

NextTools ==
  \/ ClientParseEmbed(1)
  \/ \E embed_code \in {EmbedCode, ""} : ToolParseEmbedCode(1, embed_code)
  \/ \E response \in OverlapBundleResponses : BundleFetched(1, response)
  \/ \E ruleName \in ToolRuleNames, useAI \in BOOLEAN :
       ClientAnalyzeRule(1, ruleName, useAI)
  \/ \E ruleName \in OverlapRuleNames \cup {""}, withEmbedCode \in BOOLEAN, use_ai \in BOOLEAN :
       ToolAnalyzeRule(1, ruleName, withEmbedCode, use_ai)
  \/ ContinueAnalyzeRule(1)
  \/ \E response \in OverlapCodeResponses : CodeFetched(1, response)
  \/ \E response \in BackendResponses : BackendAnswered(1, response)
  \/ \E withEmbedCode \in BOOLEAN : ToolListRules(1, withEmbedCode)
  \/ ContinueListRules(1)
  \/ \E elementName \in ElementNames, useAI \in BOOLEAN :
       ClientAnalyzeDataElement(1, elementName, useAI)
  \/ \E elementName \in {"uid", "nonexistent", ""}, withEmbedCode \in BOOLEAN,
        use_ai \in BOOLEAN :
       ToolAnalyzeDataElement(1, elementName, withEmbedCode, use_ai)
  \/ \E variableName \in VariableNames, useAI \in BOOLEAN :
       ClientAnalyzeVariable(1, variableName, useAI)
  \/ \E variableName \in {"eVar1", "nonexistent", ""}, withEmbedCode \in BOOLEAN,
        use_ai \in BOOLEAN :
       ToolAnalyzeVariable(1, variableName, withEmbedCode, use_ai)
  \/ \E entry \in {"list_data_elements", "list_variables"}, withEmbedCode \in BOOLEAN :
       ToolList(1, entry, withEmbedCode)
  \/ ContinueTool(1)
  \/ \E entry \in ModelTools : ToolWithoutArguments(1, entry)
  \/ ToolUnknown(1, "summarize_rule")
  \/ ClientExtractEmbedFromUrl(1)
  \/ \E url \in {PageUrl, ""} : ToolParseEmbedFromUrl(1, url)
  \/ \E response \in PageResponses : PageFetched(1, response)

SpecTools == Init /\ [][NextTools]_vars

\* Parses alone, one after the other, over the whole corpus and the bundle
\* with one record
NextParse ==
  \/ ClientParseEmbed(1)
  \/ ToolParseEmbedCode(1, EmbedCode)
  \/ \E response \in BundleResponses \cup {Success(BundleOne), Success(BundleD)} :
       BundleFetched(1, response)

SpecParse == Init /\ [][NextParse]_vars

(***************************************************************************)
(* Properties                                                              *)
(***************************************************************************)
\* The customCode slot an analyzeRule call found at its lookup
slotAtLookup == last.before[1].rules.customCode[last.ruleIndex + 1]

analyzeRuleFetched == last.op = "analyzeRule" /\ last.fetches = 1

noDuplicates(arr) == \A j, k \in 1..Len(arr) : j # k => arr[j] # arr[k]

\* C1: whenever the session holds a model, rules.names, rules.events,
\* rules.conditions, rules.actions, rules.trackerProperties and
\* rules.customCode have the same length.
C1_SameLength ==
  parsedEmbed # Null =>
    /\ Len(parsedEmbed[1].rules.events) = Len(parsedEmbed[1].rules.names)
    /\ Len(parsedEmbed[1].rules.conditions) = Len(parsedEmbed[1].rules.names)
    /\ Len(parsedEmbed[1].rules.actions) = Len(parsedEmbed[1].rules.names)
    /\ Len(parsedEmbed[1].rules.trackerProperties) = Len(parsedEmbed[1].rules.names)
    /\ Len(parsedEmbed[1].rules.customCode) = Len(parsedEmbed[1].rules.names)

\* C2: analyzeRule on a session without a model throws the parse-first error,
\* and on a model that does not list the name it throws the rule-not-found
\* error; either way nothing is requested from the Fetcher and the session
\* model is what it was.
C2_AnalyzeRuleErrors ==
  /\ \A s \in Slots :
       calls[s].pc = "fetchCode" =>
         /\ calls[s].before # Null
         /\ arrayIncludes(calls[s].before[1].rules.names, calls[s].ruleName)
  /\ (last.op = "analyzeRule" /\ last.before = Null) =>
       /\ ~last.ok
       /\ last.message = NoModelParsed
       /\ last.fetches = 0
       /\ parsedEmbed = Null
  /\ (/\ last.op = "analyzeRule"
      /\ last.before # Null
      /\ ~arrayIncludes(last.before[1].rules.names, last.ruleName)) =>
       /\ ~last.ok
       /\ last.message = ruleNotFound(last.ruleName)
       /\ last.fetches = 0
       /\ parsedEmbed = last.before

\* A name that is not in the model was asked for, on a model with rules
C2_Witness ==
  /\ last.op = "analyzeRule"
  /\ last.before # Null
  /\ Len(last.before[1].rules.names) >= 2
  /\ last.ruleName = "nonexistent"
  /\ ~last.ok

\* C3: parseEmbed throws when the fetch fails, when the text has neither
\* validity marker, or when it lacks the container marker; and whenever
\* parseEmbed throws, the session model is the one the call found.
C3_FailedParseKeepsModel ==
  /\ (/\ last.op = "parseEmbed"
      /\ \/ ~last.fetchOk
         \/ /\ ~includes(last.launchFile, "window._satellite")
            /\ ~includes(last.launchFile, "_satellite.container")
         \/ ~includes(last.launchFile, "window._satellite.container=")) =>
       ~last.ok
  /\ (last.op = "parseEmbed" /\ ~last.ok) => parsedEmbed = last.before

\* A fetched text was rejected while the session held a model with a
\* resolved custom-code slot
C3_Witness ==
  /\ last.op = "parseEmbed"
  /\ last.fetchOk
  /\ ~last.ok
  /\ last.before # Null
  /\ last.wasResolved

\* C4: an analyzeRule call for a rule whose customCode slot a successful
\* fetch has already overwritten on this model requests nothing from the
\* Fetcher.
C4_SecondCallNoFetch ==
  (last.op = "analyzeRule" /\ last.wasResolved) => last.fetches = 0

\* C5: no custom-code URL of a rule of the current model is requested from
\* the Fetcher more than once.
C5_UrlFetchedOnce ==
  \A i \in 1..Len(fetched) : noDuplicates(fetched[i])

\* C5, as the code has it: analyzeRule goes to the Fetcher only for a slot
\* that begins with "URL:", for the URL written there, and it does so for
\* every slot holding a URL marker; a failed fetch leaves the slot as it was,
\* so that the next call requests the same URL again.
C5_FetchOnDemand ==
  /\ \A s \in Slots :
       calls[s].pc = "fetchCode" =>
         startsWith(calls[s].before[1].rules.customCode[calls[s].ruleIndex + 1], "URL:")
  /\ analyzeRuleFetched =>
       /\ startsWith(slotAtLookup, "URL:")
       /\ slotAtLookup = "URL: " \o last.url
          \/ startsWith(slotAtLookup, "URL: " \o last.url \o " ")
       /\ last.ruleIndex = arrayIndexOf(last.before[1].rules.names, last.ruleName)
       /\ Len(fetched[last.ruleIndex + 1]) <= MaxFetches
  /\ (last.op = "analyzeRule" /\ last.ok /\ last.fetches = 0) =>
       ~startsWith(slotAtLookup, "URL: http")
  /\ (analyzeRuleFetched /\ ~last.fetchOk) =>
       parsedEmbed[1].rules.customCode[last.ruleIndex + 1] = slotAtLookup

\* The same URL was requested a second time after the first request failed
C5_Witness ==
  /\ analyzeRuleFetched
  /\ ~last.wasResolved
  /\ Len(fetched[last.ruleIndex + 1]) = 2
  /\ fetched[last.ruleIndex + 1][1] = fetched[last.ruleIndex + 1][2]

\* C6: when the fetch of the custom code fails, analyzeRule returns an
\* analysis instead of throwing (its own summary of the rule when it does not
\* go to the backend), the custom code it reports is the slot with
\* the failure note appended, and the model still lists the rule with its
\* slot, so that later calls can analyze it.
C6_FetchFailureNoted ==
  (analyzeRuleFetched /\ ~last.fetchOk) =>
    /\ last.ok
    /\ last.backendCalls = 0 => startsWith(last.message, "Rule: " \o last.ruleName)
    /\ last.customCode = slotAtLookup \o " (Failed to fetch: " \o NetworkError \o ")"
    /\ last.replied => ~last.isError
    /\ parsedEmbed = last.before
    /\ arrayIndexOf(parsedEmbed[1].rules.names, last.ruleName) = last.ruleIndex

\* The analyze_rule tool answered after the fetch of the custom code failed
C6_Witness ==
  /\ analyzeRuleFetched
  /\ ~last.fetchOk
  /\ last.entry = "analyze_rule"
  /\ last.replied

\* C7: when analyzeRule writes fetched custom code, no parseEmbed has
\* replaced the session model since the call looked the rule up.
C7_WriteInLookupModel ==
  (analyzeRuleFetched /\ last.fetchOk) => ~last.stale

\* C8: in every model the session holds, each list in variables names only
\* rules of rules.names and names none twice.
C8_VariablesNameRules ==
  parsedEmbed # Null =>
    \A i \in 1..Len(parsedEmbed[1].variables) :
      /\ \A k \in 1..Len(parsedEmbed[1].variables[i].value) :
           arrayIncludes(parsedEmbed[1].rules.names, parsedEmbed[1].variables[i].value[k])
      /\ noDuplicates(parsedEmbed[1].variables[i].value)

\* A model with a resolved custom-code slot and a variable used by two rules
C8_Witness ==
  /\ parsedEmbed # Null
  /\ \E i \in 1..Len(resolved) : resolved[i]
  /\ \E i \in 1..Len(parsedEmbed[1].variables) :
       Len(parsedEmbed[1].variables[i].value) >= 2

\* C9: any two parses of the same text, whatever happened between them, give
\* the same rules.names in the same order and the same set of dataElements
\* keys.
C9_ReparseIdempotent ==
  \A p, q \in parses :
    p.text = q.text => p.names = q.names /\ p.keys = q.keys

\* A text was parsed again after analyzeRule had resolved a slot of the model
\* its first parse gave
C9_Witness ==
  /\ last.op = "parseEmbed"
  /\ last.ok
  /\ last.reparse
  /\ last.wasResolved
  /\ last.before[1].rules.names = parsedEmbed[1].rules.names
  /\ Len(parsedEmbed[1].dataElements) >= 2

\* C10: when parseEmbed returns, the session model is what the extraction
\* pass makes of the fetched text and nothing else, whatever model the
\* session held before and whichever tool made the call.
C10_ParseReplacesModel ==
  (last.op = "parseEmbed" /\ last.ok) =>
    parsedEmbed = <<Parsed[last.launchFile].data>>

\* A tool call that brought its own embed code replaced a model of as many
\* rules that had a resolved custom-code slot
C10_Witness ==
  /\ last.op = "parseEmbed"
  /\ last.ok
  /\ last.entry \in {"analyze_rule", "list_rules"}
  /\ last.wasResolved
  /\ Len(last.before[1].rules.names) = Len(parsedEmbed[1].rules.names)
  /\ last.before # parsedEmbed

\* C11: once the session holds a model it holds one ever after: no step of
\* any operation, failed or not, takes the session from a model back to
\* none.
C11_ModelStays == [][parsedEmbed # Null => parsedEmbed' # Null]_vars

\* A tool invocation made on a model has just failed, and the session still
\* holds a model
C11_Witness ==
  /\ parsedEmbed # Null
  /\ last.before # Null
  /\ last.replied
  /\ last.isError

\* A tool invocation that ended before any method of the client was called
endedInHandler == last.replied /\ last.op = "none"

\* The invocation carried what the tool's input schema requires: an analysis
\* tool got its name argument, as a string
schemaSatisfied ==
  last.entry \in AnalysisTools => last.text # "Error: " \o readOfUndefined(last.entry)

\* C12: a tool that needs a model (analyze_rule, analyze_data_element,
\* analyze_variable, list_rules, list_data_elements, list_variables), invoked
\* without embed_code while the session holds no model, returns an error
\* result with the one parse-first message, for every argument set its input
\* schema admits.
C12_UniformParseFirst ==
  (/\ endedInHandler
   /\ last.entry \in ModelTools
   /\ last.before = Null
   /\ schemaSatisfied)
  => /\ last.isError
     /\ last.text = "Error: " \o NoEmbedParsed

\* The invocation met one of the failures: the handler or a method threw, or
\* the generative backend failed
failed == ~last.ok \/ (last.backendCalls = 1 /\ ~last.backendOk)

\* C13: the tool-call handler always returns a result: every failure
\* (missing parameter, unknown tool, invalid bundle, container not found,
\* lookup miss, network error, generative-backend error) comes back as text
\* with isError set, and every success as text without it.
C13_FailuresFlagged == last.replied => (last.isError <=> failed)

AnalysisMethods == {"analyzeRule", "analyzeDataElement", "analyzeVariable"}

\* The summary the method that just returned builds from the model without
\* the backend: for a rule, from the record read at the lookup with the
\* custom code the call ended up with
templated ==
  CASE last.op = "analyzeRule" ->
         ruleSummary(last.ruleName,
           [ruleDataAt(last.before[1].rules, last.ruleIndex) EXCEPT
              !.customCode = last.customCode])
    [] last.op = "analyzeDataElement" ->
         dataElementSummary(last.ruleName,
           omGet(last.before[1].dataElements, last.ruleName))
    [] last.op = "analyzeVariable" ->
         variableSummary(last.ruleName,
           omGet(last.before[1].variables, last.ruleName),
           usageDetailsOf(last.before[1].rules,
                          omGet(last.before[1].variables, last.ruleName),
                          last.ruleName))

lookupFailures ==
  {NoModelParsed, ruleNotFound(last.ruleName), dataElementNotFound(last.ruleName),
   variableNotFound(last.ruleName)}

\* C14: on a server started without an API key, analyzeRule,
\* analyzeDataElement and analyzeVariable return the templated summary for
\* every useAI, and their tools for every use_ai; the backend is never
\* invoked, and the only failures are the lookup failures.
C14_TemplatedWithoutKey ==
  ~openAiApiKey =>
    /\ \A s \in Slots : calls[s].pc # "backend"
    /\ last.backendCalls = 0
    /\ last.op \in AnalysisMethods =>
         /\ last.ok => last.message = templated
         /\ ~last.ok => last.message \in lookupFailures
         /\ last.replied /\ last.ok => last.text = templated /\ ~last.isError

\* analyzeRule was called with useAI = true on a server without a key, went
\* to the Fetcher for the rule's custom code and returned
C14_Witness ==
  /\ ~openAiApiKey
  /\ last.op = "analyzeRule"
  /\ last.useAI
  /\ last.fetches = 1
  /\ last.ok

\* C15: every name the model lists is analyzable.  Called with useAI = false
\* for a name of rules.names, analyzeRule returns its templated summary,
\* whatever became of the fetch of the rule's custom code; for a key of
\* dataElements analyzeDataElement returns, and for a key of variables
\* analyzeVariable returns.
C15_ListedIsAnalyzable ==
  (last.op \in AnalysisMethods /\ ~last.useAI /\ last.before # Null) =>
    /\ (last.op = "analyzeRule"
        /\ arrayIncludes(last.before[1].rules.names, last.ruleName))
       => last.ok /\ last.message = templated
    /\ (last.op = "analyzeDataElement"
        /\ arrayIncludes(omKeys(last.before[1].dataElements), last.ruleName))
       => last.ok /\ last.message = templated
    /\ (last.op = "analyzeVariable"
        /\ arrayIncludes(omKeys(last.before[1].variables), last.ruleName))
       => last.ok /\ last.message = templated

\* analyzeDataElement(k, false) has returned for a key of the model whose
\* text names no module
C15_Witness ==
  /\ last.op = "analyzeDataElement"
  /\ ~last.useAI
  /\ last.before # Null
  /\ arrayIncludes(omKeys(last.before[1].dataElements), last.ruleName)
  /\ ~includes(omGet(last.before[1].dataElements, last.ruleName), "modulePath:")
  /\ last.ok

\* Where the records of the rules begin in a launch file, and the k-th of them
ruleAnchors(launchFile) ==
  {i \in 0..(Len(launchFile) - 1) :
     matchAt(launchFile, "{", i) /\ rulePatternAt(launchFile, i).ok}

anchorOf(launchFile, k) ==
  CHOOSE i \in ruleAnchors(launchFile) :
    Cardinality({j \in ruleAnchors(launchFile) : j < i}) = k - 1

\* The text of the k-th record: from its anchor to the next one
recordOf(launchFile, k) ==
  substring(launchFile, anchorOf(launchFile, k),
            IF k < Cardinality(ruleAnchors(launchFile))
            THEN anchorOf(launchFile, k + 1) ELSE Len(launchFile))

upTo(s, i) == IF i = -1 THEN s ELSE substring(s, 0, i)

\* The events region of a record, from events:[ to the bracket that closes
\* it; "" when the record has none
eventsRegionOf(record) ==
  IF ~includes(record, "events:[") THEN ""
  ELSE upTo(slice(record, indexOf(record, "events:[", 0), Len(record)),
            indexOf(slice(record, indexOf(record, "events:[", 0), Len(record)), "]", 0))

\* The value of the first path key of a region
pathValueIn(region) ==
  upTo(slice(region, indexOf(region, "path:\"", 0) + 6, Len(region)),
       indexOf(slice(region, indexOf(region, "path:\"", 0) + 6, Len(region)), Quote, 0))

\* The text after the last '/' of a path, cut at its first '.'
stemOf(path) ==
  upTo(slice(path, greatest({i \in 0..(Len(path) - 1) : matchAt(path, "/", i)} \cup {-1}) + 1,
             Len(path)),
       indexOf(slice(path,
                     greatest({i \in 0..(Len(path) - 1) : matchAt(path, "/", i)} \cup {-1}) + 1,
                     Len(path)), ".", 0))

justParsed == last.op = "parseEmbed" /\ last.ok

\* C16 as stated: for every rule whose events region contains a path key,
\* the rule's events entry is the text after the last '/' of that path, cut
\* at its first '.'.
C16_PathGivesEvent ==
  justParsed =>
    \A k \in 1..Len(parsedEmbed[1].rules.names) :
      includes(eventsRegionOf(recordOf(last.launchFile, k)), "path:\"")
      => parsedEmbed[1].rules.events[k]
           = stemOf(pathValueIn(eventsRegionOf(recordOf(last.launchFile, k))))

\* The path key of the region follows events:[ on the same line
pathOnLineOf(region) ==
  ~hasLineTerminator(upTo(region, indexOf(region, "path:\"", 0)))

\* C16: for every rule whose events region contains a path key on the line
\* of its events:[, with a value that is not empty, the rule's events entry
\* is the text after the last '/' of that path, cut at its first '.'; the
\* bundle with the single record RL1 "PageLoad" whose path ends in
\* /pageLoad.js gives rules.names = <<"PageLoad">> and events "pageLoad".
C16_PathOnLineGivesEvent ==
  /\ Parsed[BundleOne].data.rules.names = <<"PageLoad">>
  /\ Parsed[BundleOne].data.rules.events = <<"pageLoad">>
  /\ justParsed =>
       \A k \in 1..Len(parsedEmbed[1].rules.names) :
         (/\ includes(eventsRegionOf(recordOf(last.launchFile, k)), "path:\"")
          /\ pathOnLineOf(eventsRegionOf(recordOf(last.launchFile, k)))
          /\ truthy(pathValueIn(eventsRegionOf(recordOf(last.launchFile, k)))))
         => parsedEmbed[1].rules.events[k]
              = stemOf(pathValueIn(eventsRegionOf(recordOf(last.launchFile, k))))

\* The bundle with the single record has just been parsed
C16_Witness ==
  /\ justParsed
  /\ last.launchFile = BundleOne
  /\ parsedEmbed[1].rules.events = <<"pageLoad">>

\* analyzeDataElement has just returned its own summary of an element; the
\* text of that element
elementSummarized ==
  last.op = "analyzeDataElement" /\ last.ok /\ last.backendCalls = 0

elementDataOfLast == omGet(last.before[1].dataElements, last.ruleName)

\* C17 as stated: every data element whose text contains storageDuration is
\* classified localStorage, whatever other type signatures the text contains.
C17_StorageDurationIsLocalStorage ==
  (elementSummarized /\ includes(elementDataOfLast, "storageDuration"))
  => includes(last.message, "\nType: localStorage\n")

\* The text holds one of the signatures tested after storageDuration
laterSignature(elementData) ==
  \/ includes(elementData, "customCode")
  \/ includes(elementData, "path:")
  \/ includes(elementData, "elementSelector")
  \/ includes(elementData, "cookieName")

\* C17: every data element whose text contains storageDuration and none of
\* customCode, path:, elementSelector and cookieName is classified
\* localStorage, whether or not it also contains defaultValue or a modulePath.
C17_LocalStorageUnlessLater ==
  (/\ elementSummarized
   /\ includes(elementDataOfLast, "storageDuration")
   /\ ~laterSignature(elementDataOfLast))
  => includes(last.message, "\nType: localStorage\n")

\* An element with both defaultValue and storageDuration was analyzed
C17_Witness ==
  /\ elementSummarized
  /\ includes(elementDataOfLast, "storageDuration")
  /\ includes(elementDataOfLast, "defaultValue")
  /\ includes(last.message, "\nType: localStorage\n")

NeitherPattern == "Failed to extract embed code from URL: " \o EmbedNotFound

\* C18: extractEmbedFromUrl returns what the adobedtm pattern captures in the
\* fetched page when that pattern matches, else what the generic launch
\* pattern captures when that one matches, and fails with the
\* embed-not-found error when neither does; whatever the outcome, the
\* session model is what it was.
C18_PatternsInOrder ==
  last.op = "extractEmbedFromUrl" =>
    /\ parsedEmbed = last.before
    /\ last.fetchOk =>
         IF truthy(embedMatch(last.fetchedText, 0))
         THEN last.ok /\ last.message = embedMatch(last.fetchedText, 0)
         ELSE IF truthy(embedMatch(last.fetchedText, 1))
         THEN last.ok /\ last.message = embedMatch(last.fetchedText, 1)
         ELSE ~last.ok /\ last.message = NeitherPattern

\* On a session with a model, the page with a local launch script before
\* the adobedtm script gave the adobedtm source
C18_Witness ==
  /\ last.op = "extractEmbedFromUrl"
  /\ last.before # Null
  /\ last.fetchedText = PageBoth
  /\ truthy(embedMatch(PageBoth, 1))
  /\ last.message = "https://assets.adobedtm.com/abc/EN2.min.js"

\* C19: for every fetched text that passes the validity check and contains
\* the container marker, parseEmbed succeeds and installs the model of that
\* text, whose rules carry "Unknown" or a stem as event and texts, possibly
\* empty, in the other fields.
C19_MarkedTextParses ==
  (/\ last.op = "parseEmbed"
   /\ last.fetchOk
   /\ isLaunchFile(last.launchFile)
   /\ includes(last.launchFile, "window._satellite.container="))
  => /\ last.ok
     /\ parsedEmbed = <<Parsed[last.launchFile].data>>

\* The step is the end of a parseEmbed of the invocation in slot s
replacesModel(s) == calls[s].pc = "fetchBundle"

\* The step is the resumption of the analyzeRule in slot s, and the model
\* after it is the model before it but for the customCode slot at the index
\* the call looked its rule up at
patchesOneSlot(s) ==
  /\ calls[s].pc = "fetchCode"
  /\ calls[s].ruleIndex
       = arrayIndexOf(calls[s].before[1].rules.names, calls[s].ruleName)
  /\ parsedEmbed # Null
  /\ parsedEmbed' # Null
  /\ calls[s].ruleIndex + 1 \in DOMAIN parsedEmbed'[1].rules.customCode
  /\ parsedEmbed'[1] =
       [parsedEmbed[1] EXCEPT !.rules.customCode =
          assignAt(@, calls[s].ruleIndex,
                   parsedEmbed'[1].rules.customCode[calls[s].ruleIndex + 1])]

\* C20: besides the replacement by parseEmbed the model changes in one way
\* only: no step of analyzeDataElement, analyzeVariable, extractEmbedFromUrl
\* or a list tool changes it, and a step of analyzeRule changes at most the
\* customCode slot at the index of the rule it looked up, leaving names,
\* events, conditions, actions, trackerProperties, the other customCode
\* slots, dataElements and variables as they were.
C20_OneMutationPath ==
  [][\/ parsedEmbed' = parsedEmbed
     \/ \E s \in Slots : replacesModel(s) \/ patchesOneSlot(s)]_vars

\* analyzeRule has changed the model of a session with more than one rule
C20_Witness ==
  /\ analyzeRuleFetched
  /\ last.fetchOk
  /\ parsedEmbed # last.before
  /\ Len(parsedEmbed[1].rules.names) > 1
  /\ Len(parsedEmbed[1].dataElements) > 0

\* The text of a rule in which variables are looked for
combinedTextOf(rules, i) == rules.trackerProperties[i] \o rules.customCode[i]

\* The positions of the rules whose text references the variable v
referencersOf(rules, v) ==
  {i \in 1..Len(rules.names) : regexFound(combinedTextOf(rules, i), v, 0)}

\* The first position of a referencing rule that carries the name
firstSeen(rules, v, name) ==
  least({i \in referencersOf(rules, v) : rules.names[i] = name})

\* C21: after a parse, the list of every variable in variables holds exactly
\* the names of all the rules whose trackerProperties + customCode text
\* references the variable, each name once, in the order in which the rules
\* carrying them first appear; no list is empty.
C21_AllReferencingRules ==
  justParsed =>
    \A n \in 1..Len(parsedEmbed[1].variables) :
      /\ range(parsedEmbed[1].variables[n].value)
           = {parsedEmbed[1].rules.names[i] :
                i \in referencersOf(parsedEmbed[1].rules, parsedEmbed[1].variables[n].key)}
      /\ noDuplicates(parsedEmbed[1].variables[n].value)
      /\ \A j, k \in 1..Len(parsedEmbed[1].variables[n].value) :
           j < k =>
             firstSeen(parsedEmbed[1].rules, parsedEmbed[1].variables[n].key,
                       parsedEmbed[1].variables[n].value[j])
             < firstSeen(parsedEmbed[1].rules, parsedEmbed[1].variables[n].key,
                         parsedEmbed[1].variables[n].value[k])
      /\ Len(parsedEmbed[1].variables[n].value) > 0

\* A parse has listed two names under a variable that three rules reference,
\* two of them named alike
C21_Witness ==
  /\ justParsed
  /\ \E n \in 1..Len(parsedEmbed[1].variables) :
       /\ Len(parsedEmbed[1].variables[n].value) = 2
       /\ Cardinality(referencersOf(parsedEmbed[1].rules,
                                    parsedEmbed[1].variables[n].key)) = 3

\* The token stands at p of the text as a whole word: no word character
\* before it and none after it
wholeWordAt(text, token, p) ==
  /\ matchAt(text, token, p)
  /\ p = 0 \/ ~isWordChar(substring(text, p - 1, p))
  /\ boundaryAt(text, p + Len(token))

wholeWordIn(text, token) ==
  \E p \in 0..(Len(text) - 1) : wholeWordAt(text, token, p)

\* The canonical variable names: eVar0..eVar250, prop0..prop75,
\* event0..event1000
canonicalNames ==
  {"eVar" \o toString(i) : i \in 0..(EVarRange - 1)}
    \cup {"prop" \o toString(i) : i \in 0..(PropRange - 1)}
    \cup {"event" \o toString(i) : i \in 0..(EventRange - 1)}

\* C22: after a parse, every key of variables is a canonical name, and a
\* rule's name is listed under it only when the rule's trackerProperties +
\* customCode text holds the token as a whole word, delimited on both
\* sides: neither a longer index nor a longer identifier that ends with
\* the token counts.
C22_WholeWordOnly ==
  justParsed =>
    \A n \in 1..Len(parsedEmbed[1].variables) :
      /\ parsedEmbed[1].variables[n].key \in canonicalNames
      /\ range(parsedEmbed[1].variables[n].value)
           = {parsedEmbed[1].rules.names[i] :
                i \in {k \in 1..Len(parsedEmbed[1].rules.names) :
                         wholeWordIn(combinedTextOf(parsedEmbed[1].rules, k),
                                     parsedEmbed[1].variables[n].key)}}

\* The positions (from 1) of the records that carry a name
carrying(rules, name) == {i \in 1..Len(rules.names) : rules.names[i] = name}

\* analyzeRule has returned for a name the model it looked in carries
analyzeRuleReturned ==
  /\ last.op = "analyzeRule"
  /\ last.ok
  /\ last.before # Null

\* C23: analyzeRule(name) reports the record with the lowest index that
\* carries the name: its own summary is built from the fields at that index,
\* and the custom code it resolves goes into the slot at that index; every
\* other slot, those of the other records with the same name included, is
\* after the call what it was before.
C23_FirstMatchWins ==
  analyzeRuleReturned =>
    /\ last.ruleIndex + 1 = least(carrying(last.before[1].rules, last.ruleName))
    /\ last.backendCalls = 0 =>
         last.message
           = ruleSummary(last.ruleName,
               [ruleDataAt(last.before[1].rules,
                           least(carrying(last.before[1].rules, last.ruleName)) - 1)
                  EXCEPT !.customCode = last.customCode])
    /\ last.fetches = 0 => last.customCode = slotAtLookup
    /\ parsedEmbed # Null
    /\ \A i \in 1..Len(last.before[1].rules.customCode) :
         i # least(carrying(last.before[1].rules, last.ruleName))
         => parsedEmbed[1].rules.customCode[i] = last.before[1].rules.customCode[i]
    /\ parsedEmbed[1]
         = [last.before[1] EXCEPT !.rules.customCode = parsedEmbed[1].rules.customCode]

\* analyzeRule has resolved the custom code of a name that two records
\* carry: the first record's slot holds the fetched text, the second's slot
\* is what it was
C23_Witness ==
  /\ analyzeRuleReturned
  /\ last.fetches = 1
  /\ last.fetchOk
  /\ Cardinality(carrying(last.before[1].rules, last.ruleName)) = 2
  /\ parsedEmbed[1].rules.customCode[least(carrying(last.before[1].rules, last.ruleName))]
       = last.fetchedText
  /\ parsedEmbed # last.before
  /\ \E i \in carrying(last.before[1].rules, last.ruleName) :
       /\ i # least(carrying(last.before[1].rules, last.ruleName))
       /\ needsFetch(parsedEmbed[1].rules.customCode[i])

\* C24: a parse yields one rule record per match of the anchor pattern in
\* the fetched text, in the order of the matches: rules.names is as long as
\* the matches are many and its i-th entry is the name the i-th match
\* captured, records of equal names being kept apart.
C24_OneRecordPerAnchor ==
  justParsed =>
    /\ Len(parsedEmbed[1].rules.names) = Cardinality(ruleAnchors(last.launchFile))
    /\ \A k \in 1..Len(parsedEmbed[1].rules.names) :
         parsedEmbed[1].rules.names[k]
           = rulePatternAt(last.launchFile, anchorOf(last.launchFile, k)).name

\* A text with four anchors, two of them with the same name, has been
\* parsed into four records
C24_Witness ==
  /\ justParsed
  /\ Cardinality(ruleAnchors(last.launchFile)) = 4
  /\ parsedEmbed[1].rules.names = <<"Track", "Track", "Inline", "Scroll">>

\* C25: after a parse, the events entry of every rule whose record has no
\* events region, or whose events region holds no path key, is "Unknown",
\* whatever path keys the rest of the rule's window holds.
C25_NoPathInEventsIsUnknown ==
  justParsed =>
    \A k \in 1..Len(parsedEmbed[1].rules.names) :
      ~includes(eventsRegionOf(recordOf(last.launchFile, k)), "path:\"")
      => parsedEmbed[1].rules.events[k] = "Unknown"

\* The inner text of the conditions region of a record, from after
\* conditions:[ to the bracket that closes it; "" when the record has none
conditionsInnerOf(record) ==
  IF ~includes(record, "conditions:[") THEN ""
  ELSE upTo(slice(record, indexOf(record, "conditions:[", 0) + 12, Len(record)),
            indexOf(slice(record, indexOf(record, "conditions:[", 0) + 12, Len(record)),
                    "]", 0))

\* C26: after a parse, the conditions entry of a rule is "" exactly when the
\* rule's record has no conditions region with text in it, and otherwise is
\* the inner text of that region, so that the summary analyzeRule builds
\* from the entry names the kinds of condition by keyword: for a region
\* that holds the word pathname it says "Page path condition".
C26_ConditionsKeepInnerText ==
  justParsed =>
    \A k \in 1..Len(parsedEmbed[1].rules.names) :
      /\ parsedEmbed[1].rules.conditions[k] = ""
           <=> conditionsInnerOf(recordOf(last.launchFile, k)) = ""
      /\ parsedEmbed[1].rules.conditions[k]
           = conditionsInnerOf(recordOf(last.launchFile, k))
      /\ includes(conditionsInnerOf(recordOf(last.launchFile, k)), "pathname")
           => includes(ruleSummary(parsedEmbed[1].rules.names[k],
                                   ruleDataAt(parsedEmbed[1].rules, k - 1)),
                       "Page path condition")

\* The table of type signatures, in its order: the text looked for and the
\* type it stands for
TypeSignatures ==
  <<<<"defaultValue", "constant">>, <<"storageDuration", "localStorage">>,
    <<"customCode", "customCode">>, <<"path:", "jsVariable">>,
    <<"elementSelector", "domElement">>, <<"cookieName", "cookieValue">>>>

\* The entries of the table whose signature the text holds
signaturesIn(elementData) ==
  {k \in 1..Len(TypeSignatures) : includes(elementData, TypeSignatures[k][1])}

\* The value of the first modulePath key of a text
modulePathIn(elementData) ==
  upTo(slice(elementData, indexOf(elementData, "modulePath:\"", 0) + 12, Len(elementData)),
       indexOf(slice(elementData, indexOf(elementData, "modulePath:\"", 0) + 12,
                     Len(elementData)), Quote, 0))

\* The text after the last '/' of a path
lastSegmentOf(path) ==
  slice(path, greatest({i \in 0..(Len(path) - 1) : matchAt(path, "/", i)} \cup {-1}) + 1,
        Len(path))

\* The type the table and the modulePath give a text
signatureTypeOf(elementData) ==
  IF signaturesIn(elementData) # {}
  THEN TypeSignatures[greatest(signaturesIn(elementData))][2]
  ELSE IF includes(elementData, "modulePath:\"") /\ truthy(modulePathIn(elementData))
  THEN lastSegmentOf(modulePathIn(elementData))
  ELSE "Unknown"

\* C27: the type analyzeDataElement reports is that of the latest entry of
\* the ordered table (defaultValue, storageDuration, customCode, path:,
\* elementSelector, cookieName) whose signature the record text holds; for
\* a text that holds none it is the last segment of the record's
\* modulePath when it has one, and "Unknown" otherwise.
C27_LastMatchWins ==
  elementSummarized =>
    includes(last.message, "\nType: " \o signatureTypeOf(elementDataOfLast) \o "\n")

\* An element whose text holds two signatures of the table has been
\* summarized with the type of the later one
C27_Witness ==
  /\ elementSummarized
  /\ signaturesIn(elementDataOfLast) = {2, 6}
  /\ includes(last.message, "\nType: cookieValue\n")

\* The text of a record after its first customCode.js, up to the next comma
customCodeRunOf(record) ==
  upTo(slice(record, indexOf(record, "customCode.js", 0) + 13, Len(record)),
       indexOf(slice(record, indexOf(record, "customCode.js", 0) + 13, Len(record)), ",", 0))

\* The record names the custom-code module and, before any comma, a source
\* key
hasSourceKey(record) ==
  /\ includes(record, "customCode.js")
  /\ indexOf(customCodeRunOf(record), "source:\"", 0) > 0

\* The source string of such a record: what follows the source key, up to
\* the next quote
sourceOf(record) ==
  upTo(slice(record,
             indexOf(record, "customCode.js", 0) + 13
               + indexOf(customCodeRunOf(record), "source:\"", 0) + 8,
             Len(record)),
       indexOf(slice(record,
                     indexOf(record, "customCode.js", 0) + 13
                       + indexOf(customCodeRunOf(record), "source:\"", 0) + 8,
                     Len(record)), Quote, 0))

\* The records of every launch file of the corpus, by file and position
RecordsOf ==
  [b \in Bundles \cup {BundleOne, BundleD} |->
     [k \in 1..Cardinality(ruleAnchors(b)) |-> recordOf(b, k)]]

\* C28: a parse requests nothing but the bundle: right after it no custom
\* code has been requested for any rule of the new model and no slot is
\* resolved.  The customCode slot of a rule whose record has a source
\* string is, for a source that begins with http, a marker that begins
\* with "URL:", holds the URL and is still to be fetched, and for any
\* other source the source itself.
C28_CustomCodeDeferred ==
  justParsed =>
    /\ \A s \in Slots : calls[s].pc # "fetchCode"
    /\ \A k \in 1..Len(parsedEmbed[1].rules.names) :
         /\ fetched[k] = <<>>
         /\ ~resolved[k]
         /\ (hasSourceKey(RecordsOf[last.launchFile][k])
              /\ truthy(sourceOf(RecordsOf[last.launchFile][k])))
            => IF startsWith(sourceOf(RecordsOf[last.launchFile][k]), "http")
               THEN /\ startsWith(parsedEmbed[1].rules.customCode[k], "URL:")
                    /\ includes(parsedEmbed[1].rules.customCode[k],
                                sourceOf(RecordsOf[last.launchFile][k]))
                    /\ needsFetch(parsedEmbed[1].rules.customCode[k])
                    /\ customCodeUrl(parsedEmbed[1].rules.customCode[k])
                         = sourceOf(RecordsOf[last.launchFile][k])
               ELSE parsedEmbed[1].rules.customCode[k]
                      = sourceOf(RecordsOf[last.launchFile][k])

\* A parse has stored a URL marker for one rule and literal code for
\* another, after an earlier model had a slot resolved
C28_Witness ==
  /\ justParsed
  /\ last.wasResolved
  /\ \E k \in 1..Len(parsedEmbed[1].rules.names) :
       parsedEmbed[1].rules.customCode[k]
         = "URL: http://cdn.example/a.js (Use analyze_rule to fetch complete code)"
  /\ \E k \in 1..Len(parsedEmbed[1].rules.names) :
       parsedEmbed[1].rules.customCode[k] = "s.myprop5=s.eVar1;s.event3()"

\* The call in slot 1 is one of parse_embed_from_url at the given await
fromUrlAt(pc) == calls[1].entry = "parse_embed_from_url" /\ calls[1].pc = pc

\* The step that ends the extraction of parse_embed_from_url: the model is
\* left alone; parseEmbed is invoked exactly when the extraction returned,
\* and then with what it returned; a failure is rendered at once
extractionStep ==
  fromUrlAt("fetchPage") =>
    /\ parsedEmbed' = parsedEmbed
    /\ parses' = parses
    /\ last'.op = "extractEmbedFromUrl"
    /\ last'.ok <=> calls'[1].pc = "fetchBundle"
    /\ IF last'.ok
       THEN /\ truthy(last'.message)
            /\ includes(last'.fetchedText, last'.message)
            /\ calls'[1].url = last'.message
            /\ ~last'.replied
       ELSE /\ calls'[1] = Idle
            /\ last'.isError
            /\ startsWith(last'.text,
                 "Error: Failed to extract/parse embed code from URL: Failed to extract embed code from URL: ")

\* The step that ends the parse of parse_embed_from_url: the model changes
\* only when the parse returned, and the reply names the source that was
\* parsed
parseStepFromUrl ==
  fromUrlAt("fetchBundle") =>
    /\ last'.op = "parseEmbed"
    /\ calls'[1] = Idle
    /\ IF last'.ok
       THEN /\ parsedEmbed' # Null
            /\ Len(parsedEmbed'[1].rules.names)
                 = Cardinality(ruleAnchors(last'.launchFile))
            /\ includes(last'.text, "\n\nFound embed code: " \o calls[1].url \o "\n")
       ELSE /\ parsedEmbed' = parsedEmbed
            /\ last'.isError
            /\ startsWith(last'.text,
                 "Error: Failed to extract/parse embed code from URL: Failed to parse embed code: ")

\* A reply that a required parameter is missing comes from a call that
\* began and ended in the same step, with no request sent and nothing stored
rejectionStep ==
  (last' # last /\ startsWith(last'.text, "Error: Missing required parameter: ")) =>
    /\ calls[1] = Idle
    /\ calls'[1] = Idle
    /\ UNCHANGED <<parsedEmbed, fetched, resolved, parses>>

\* C29: parse_embed_from_url extracts and then parses: a failed extraction
\* ends the call with the model as it was and without a parse; a returned
\* extraction starts parseEmbed on exactly the returned source, and the
\* model is replaced only when that parse returns; a tool called without a
\* required parameter is answered before any request is sent or anything
\* is stored.
C29_ExtractThenParse ==
  [][extractionStep /\ parseStepFromUrl /\ rejectionStep]_vars

\* parse_embed_from_url has replaced an earlier model with the parse of the
\* source it extracted
C29_Witness ==
  /\ last.entry = "parse_embed_from_url"
  /\ last.op = "parseEmbed"
  /\ last.ok
  /\ last.before # Null
  /\ parsedEmbed # last.before
  /\ includes(last.text, "Found embed code: https://assets.adobedtm.com/abc/EN2.min.js\n")

\* The window of the k-th rule of a launch file: from 20 characters before
\* its anchor to 2000 after it, cut at the ends of the file
windowOf(launchFile, k) ==
  substring(launchFile,
            MaxOf(0, anchorOf(launchFile, k) - ContextBefore),
            MinOf(Len(launchFile), anchorOf(launchFile, k) + ContextAfter))

\* The windows of every launch file of the corpus, by file and position
WindowsOf ==
  [b \in Bundles \cup {BundleOne, BundleD} |->
     [k \in 1..Cardinality(ruleAnchors(b)) |-> windowOf(b, k)]]

\* The five entries of the k-th rule are the field extractions of a text
entriesAre(rules, k, text) ==
  /\ rules.events[k] = eventTypeOf(text)
  /\ rules.conditions[k] = conditionsOf(text)
  /\ rules.actions[k] = actionsOf(text)
  /\ rules.trackerProperties[k] = trackerPropertiesOf(text)
  /\ rules.customCode[k] = customCodeOf(text)

\* The tracker-property entry of the k-th rule comes from its own record
\* when that record has the key, and otherwise, when it is not empty, from
\* the first later record that has the key
trackerPropertiesFrom(launchFile, rules, k) ==
  IF includes(RecordsOf[launchFile][k], "trackerProperties:")
  THEN /\ truthy(rules.trackerProperties[k])
       /\ includes(RecordsOf[launchFile][k],
                   "trackerProperties:" \o rules.trackerProperties[k])
  ELSE truthy(rules.trackerProperties[k]) =>
         \E j \in (k + 1)..Len(rules.names) :
           /\ includes(RecordsOf[launchFile][j],
                       "trackerProperties:" \o rules.trackerProperties[k])
           /\ includes(WindowsOf[launchFile][k],
                       "trackerProperties:" \o rules.trackerProperties[k])
           /\ \A i \in (k + 1)..(j - 1) :
                ~includes(RecordsOf[launchFile][i], "trackerProperties:")

====
